---- MODULE Spec2Model ----
(***************************************************************************)
(* Verification model of the gateway:                                      *)
(*   - the rate-limited dispatch queue of the Cerebras proxy               *)
(*     (requestQueue / apiKeys / processQueue / handler), and              *)
(*   - the OAuth device-flow session handling of the Qwen gateway          *)
(*     (oauthStates / lockAcquired / handleOAuthInit / handleOAuthPoll /   *)
(*      handleOAuthCancel / cleanupExpiredOAuthStates).                    *)
(* The two subsystems share no state; each has its own specification.     *)
(***************************************************************************)
EXTENDS Integers, Sequences, FiniteSets, TLC

\* ---------------------------------------------------------------- bounds
\* number of HTTP requests the proxy receives in a run
MaxRequests == 3
\* largest number of API keys configured in CEREBRAS_API_KEYS
MaxKeys == 3
\* number of OAuth state ids that exist in a run (sessions ever created)
MaxSessions == 1
\* number of HTTP handlers of the OAuth endpoints that can be running at once
MaxHandlers == 2
\* number of times the clock is advanced in a run
MaxAdvances == 3
\* number of OAuth state ids that exist in a run in which the clock stands still
MaxPairSessions == 2

VARIABLES
  \* ---- dispatch queue (Cerebras proxy) ----
  requestQueue,     \* sequence of [body, resolve]: the pending requests, head first
  apiKeys,          \* sequence of key names: the credential pool
  currentKeyIndex,  \* rotation index into apiKeys (0-based, as in the source)
  inflight,         \* processQueue invocations suspended in `await fetch(...)`
  responses,        \* request id -> sequence of responses its client received
  nextReq,          \* id of the next incoming HTTP request
  ticks,            \* number of setInterval firings so far (saturating)
  dispatched,       \* log of upstream calls started: sequence of [resolve, keyIndex]
  waited,           \* request id -> ticker firings since it was enqueued (saturating)
  ahead,            \* request id -> queue length when it was enqueued (-1: never enqueued)
  failed,           \* requests whose upstream call threw
  \* ---- OAuth sessions and token pool (Qwen gateway) ----
  kvOpen,           \* kv !== null: Deno.openKv() succeeded at start-up
  oauthStates,      \* the in-memory map stateId -> OAuthState
  kvStates,         \* the durable entries ["oauth_states", stateId]
  tokenStore,       \* the in-memory map tokenId -> TokenData
  kvTokens,         \* the durable entries ["tokens", tokenId]
  kvListFault,      \* how many token entries a listing yields before it throws (NoFault: all)
  lockAcquired,     \* the SessionLock flag
  advances,         \* how often the clock has been advanced
  pc,               \* per handler: the suspension point it is at
  op,               \* per handler: which handler it runs
  sid,              \* per handler: the stateId it works on (0: none in the request)
  tmp,              \* per handler: local variables that live across an await
  result,           \* the response a handler sent in the step just taken, if any
  issued,           \* state ids generated so far
  terminal          \* stateId -> terminal outcomes reached, in order

\* kvListFault when the iteration over kv.list({prefix: ["tokens"]}) does not throw
NoFault == -1

qvars == <<requestQueue, apiKeys, currentKeyIndex, inflight, responses, nextReq,
           ticks, dispatched, waited, ahead, failed>>

ovars == <<kvOpen, oauthStates, kvStates, tokenStore, kvTokens, kvListFault,
           lockAcquired,
           advances, pc, op, sid, tmp, result, issued, terminal>>

vars == <<qvars, ovars>>

\* ------------------------------------------------------------- helpers
Min(a, b) == IF a < b THEN a ELSE b

Range(s) == {s[i] : i \in 1..Len(s)}

\* ======================================================================
\*                     DISPATCH QUEUE (Cerebras proxy)
\* ======================================================================
Requests == 1..MaxRequests
Bodies == {"b1", "b2"}
KeyNames == [i \in 1..MaxKeys |-> i]
Methods == {"OPTIONS", "GET", "POST"}
MaxTicks == MaxRequests + 1

\* what `await fetch(CEREBRAS_API_URL, ...)` can settle with
FetchOutcomes ==
  {[kind |-> "response", status |-> 200],
   [kind |-> "throw", status |-> 0]}

\* initializeKeys(): the keys of CEREBRAS_API_KEYS (none when it is unset)
initializeKeys(n) == SubSeq(KeyNames, 1, n)

\* requestQueue.shift(): the items it hands to this drain ...
DequeueAll(q) == q
DequeueLast(q) == <<q[Len(q)]>>
Dequeued(q) == <<Head(q)>>

\* ... and the queue that is left
ShiftDrainsAll(q) == <<>>
Shift(q) == Tail(q)

\* currentKeyIndex = (currentKeyIndex + 1) % apiKeys.length
RotateStuck(i, n) == i
Rotate(i, n) == (i + 1) % n

\* the guard of processQueue: nothing to do
NothingToDoOffByOne == Len(requestQueue) <= 1 \/ Len(apiKeys) = 0
NothingToDo == Len(requestQueue) = 0 \/ Len(apiKeys) = 0

\* the response the try block resolves with
ProxiedResponse(o) == [status |-> o.status, body |-> "upstream", cors |-> TRUE]

\* the response the catch block resolves with
NoResponseOnError(rs, o) == rs
ResolveOnError(rs, o) == Append(rs, [status |-> 502, body |-> "Proxy error", cors |-> TRUE])

\* resolve(...) of the try block
ResolveTwice(rs, o) == Append(Append(rs, ProxiedResponse(o)), ProxiedResponse(o))
ResolveOnSuccess(rs, o) == Append(rs, ProxiedResponse(o))

InitQueue ==
  /\ requestQueue = <<>>
  /\ \E n \in 0..MaxKeys : apiKeys = initializeKeys(n)
  /\ currentKeyIndex = 0
  /\ inflight = {}
  /\ responses = [r \in Requests |-> <<>>]
  /\ nextReq = 1
  /\ ticks = 0
  /\ dispatched = <<>>
  /\ waited = [r \in Requests |-> 0]
  /\ ahead = [r \in Requests |-> -1]
  /\ failed = {}
  /\ kvOpen = FALSE
  /\ oauthStates = <<>>
  /\ kvStates = <<>>
  /\ tokenStore = <<>>
  /\ kvTokens = <<>>
  /\ kvListFault = NoFault
  /\ lockAcquired = FALSE
  /\ advances = 0
  /\ pc = <<>>
  /\ op = <<>>
  /\ sid = <<>>
  /\ tmp = <<>>
  /\ result = <<>>
  /\ issued = {}
  /\ terminal = <<>>

\* handler(req): answers at once, or parks the request in the queue
handler(method, jsonOk, body) ==
  /\ nextReq \in Requests
  /\ nextReq' = nextReq + 1
  /\ LET r == nextReq
         Immediate(st) ==
           /\ responses' = [responses EXCEPT ![r] = Append(@, [status |-> st, body |-> "proxy", cors |-> TRUE])]
           /\ UNCHANGED <<requestQueue, ahead>>
     IN IF method = "OPTIONS" THEN Immediate(204)
        ELSE IF method # "POST" THEN Immediate(405)
        ELSE IF Len(apiKeys) = 0 THEN Immediate(500)
        ELSE IF ~jsonOk THEN Immediate(400)
        ELSE /\ requestQueue' = Append(requestQueue, [body |-> body, resolve |-> r])
             /\ ahead' = [ahead EXCEPT ![r] = Len(requestQueue)]
             /\ UNCHANGED responses
  /\ UNCHANGED <<apiKeys, currentKeyIndex, inflight, ticks, dispatched, waited, failed>>
  /\ UNCHANGED ovars

\* one firing of setInterval(processQueue, RATE_LIMIT_MS), up to `await fetch`
processQueue ==
  /\ ticks' = Min(ticks + 1, MaxTicks)
  /\ waited' = [r \in Requests |->
                  IF ahead[r] >= 0 THEN Min(waited[r] + 1, MaxTicks) ELSE waited[r]]
  /\ IF NothingToDo
     THEN UNCHANGED <<requestQueue, currentKeyIndex, inflight, dispatched>>
     ELSE LET items == Dequeued(requestQueue)
              apiKey == apiKeys[currentKeyIndex + 1]
          IN /\ requestQueue' = Shift(requestQueue)
             /\ currentKeyIndex' = Rotate(currentKeyIndex, Len(apiKeys))
             /\ inflight' = inflight \cup
                  {[body |-> it.body, resolve |-> it.resolve, apiKey |-> apiKey] :
                     it \in Range(items)}
             /\ dispatched' = dispatched \o
                  [i \in 1..Len(items) |->
                     [resolve |-> items[i].resolve, keyIndex |-> currentKeyIndex]]
  /\ UNCHANGED <<apiKeys, responses, nextReq, ahead, failed>>
  /\ UNCHANGED ovars

\* the rest of a processQueue invocation: fetch settles, the client is answered
fetchSettles(f, o) ==
  /\ f \in inflight
  /\ inflight' = inflight \ {f}
  /\ responses' = [responses EXCEPT ![f.resolve] =
        IF o.kind = "throw" THEN ResolveOnError(@, o) ELSE ResolveOnSuccess(@, o)]
  /\ failed' = IF o.kind = "throw" THEN failed \cup {f.resolve} ELSE failed
  /\ UNCHANGED <<requestQueue, apiKeys, currentKeyIndex, nextReq, ticks, dispatched,
                 waited, ahead>>
  /\ UNCHANGED ovars

HandlerStep == \E m \in Methods, j \in BOOLEAN, b \in Bodies : handler(m, j, b)
SettleStep == \E f \in inflight, o \in FetchOutcomes : fetchSettles(f, o)

NextQueue == HandlerStep \/ processQueue \/ SettleStep

SpecQueue == InitQueue /\ [][NextQueue]_vars

\* the ticker keeps firing and every upstream call settles
SpecQueueFair == SpecQueue /\ WF_vars(processQueue) /\ WF_vars(SettleStep)


\* ======================================================================
\*            OAUTH SESSIONS AND TOKEN POOL (Qwen gateway)
\* ======================================================================
\* Strings the code inspects are sequences of characters, so that substring() and
\* includes() are computed, not assumed.
S_prefix == <<"D", "e", "v", "i", "c", "e", " ", "t", "o", "k", "e", "n", " ", "p", "o", "l", "l", " ", "f", "a", "i", "l", "e", "d", ":", " ">>
S_sep == <<" ", "-", " ">>
S_authorization_pending == <<"a", "u", "t", "h", "o", "r", "i", "z", "a", "t", "i", "o", "n", "_", "p", "e", "n", "d", "i", "n", "g">>
S_slow_down == <<"s", "l", "o", "w", "_", "d", "o", "w", "n">>
S_access_denied == <<"a", "c", "c", "e", "s", "s", "_", "d", "e", "n", "i", "e", "d">>
S_expired_token == <<"e", "x", "p", "i", "r", "e", "d", "_", "t", "o", "k", "e", "n">>
S_denied_by_user == <<"d", "e", "n", "i", "e", "d", " ", "b", "y", " ", "u", "s", "e", "r">>
S_code_expired == <<"c", "o", "d", "e", " ", "e", "x", "p", "i", "r", "e", "d">>
S_network == <<"e", "r", "r", "o", "r", " ", "s", "e", "n", "d", "i", "n", "g", " ", "r", "e", "q", "u", "e", "s", "t">>
P_timed_out == <<"t", "i", "m", "e", "d", " ", "o", "u", "t">>
P_expired == <<"e", "x", "p", "i", "r", "e", "d">>
P_invalid == <<"i", "n", "v", "a", "l", "i", "d">>
P_401 == <<"4", "0", "1">>
RT_A == <<"r", "e", "f", "r", "e", "s", "h", "t", "o", "k", "e", "n", "A", "B", "C", "D", "E", "F", "G", "H">>
RT_B == <<"r", "e", "f", "r", "e", "s", "h", "t", "o", "k", "e", "n", "Z", "Z">>
RT_C == <<"r", "t", "-", "c">>

\* the state ids of a run: those the run keeps a history of outcomes for
StateIds == DOMAIN terminal
Handlers == 1..MaxHandlers
Timer == 0
Procs == Handlers \cup {Timer}
RefreshTokens == {RT_A, RT_C}

\* Time is counted in minutes, and every timestamp is kept relative to the present:
\* a stored value x stands for the instant Date.now() + x, so Date.now() itself reads
\* 0 and the passing of d minutes lowers every stored timestamp by d.  The code only
\* ever compares a timestamp with Date.now(), so nothing it can observe is lost.  A
\* timestamp stops being lowered once it is past every limit it is compared with.
\* (The fields are always set, and never 0 as absolute instants, so the guards
\* `state.expiresAt && ...` of the code are always true.)
DateNow == 0

\* the 60000 ms grace, the 30 min idle limit, the 60 min age limit
GRACE == 1
IDLE_LIMIT == 30
AGE_LIMIT == 60
\* steps by which the clock advances between two observations of Date.now()
Deltas == {1, IDLE_LIMIT, AGE_LIMIT}
\* expires_in of the device-code response, in minutes
ExpiresIn == {1, 100}
\* interval of the device-code response, in seconds
Intervals == {5, 15}

\* msg.includes(pat)
Includes(msg, pat) ==
  \E i \in 1..(Len(msg) - Len(pat) + 1) : SubSeq(msg, i, i + Len(pat) - 1) = pat

\* getTokenId: refresh_token.substring(0, 8)
getTokenIdWhole(refresh_token) == refresh_token
getTokenIdNine(refresh_token) == SubSeq(refresh_token, 1, Min(9, Len(refresh_token)))
getTokenId(refresh_token) == SubSeq(refresh_token, 1, Min(8, Len(refresh_token)))

\* Map helpers: Map.set, Map.delete, Map.has
MapSet(m, k, v) == [x \in DOMAIN m \cup {k} |-> IF x = k THEN v ELSE m[x]]
MapDelete(m, k) == [x \in DOMAIN m \ {k} |-> m[x]]
Has(m, k) == k \in DOMAIN m

\* saveOAuthStateToKv / saveTokenToKv: kv.set when the store is open
KvSetDropped(kvm, k, v) == kvm
KvSet(kvm, k, v) == IF kvOpen THEN MapSet(kvm, k, v) ELSE kvm

\* deleteOAuthStateFromKv: kv.delete when the store is open
KvDeleteSkipped(kvm, k) == kvm
KvDelete(kvm, k) == IF kvOpen THEN MapDelete(kvm, k) ELSE kvm

\* loadOAuthStateFromKv: the stored value, or null (here: <<>>)
Null == <<>>
LoadNothing(stateId) == Null
loadOAuthStateFromKv(stateId) ==
  IF kvOpen /\ Has(kvStates, stateId) THEN kvStates[stateId] ELSE Null

\* the while-condition of acquireLock, negated: the caller may take the lock
LockFreeUnchecked == TRUE
LockFree == ~lockAcquired

\* the three eviction conditions of cleanupExpiredOAuthStates, at time t
shouldDeleteNever(state, t) == FALSE
shouldDeleteNoAge(state, t) ==
  \/ t > state.expiresAt + GRACE
  \/ t - state.lastUsedAt > IDLE_LIMIT
shouldDelete(state, t) ==
  \/ t > state.expiresAt + GRACE
  \/ t - state.lastUsedAt > IDLE_LIMIT
  \/ t - state.createdAt > AGE_LIMIT

\* the expiry checks of handleOAuthPoll on a session, at time t: past the grace after
\* expiresAt; in the last minute before expiresAt or later
GraceDoubled(state, t) == t > state.expiresAt + 2 * GRACE
PastGrace(state, t) == t > state.expiresAt + GRACE
NearExpiryInclusive(state, t) == t >= state.expiresAt - GRACE
NearExpiry(state, t) == t > state.expiresAt - GRACE

\* state.pollInterval = Math.min((state.pollInterval || 2) * 1.5, 10), in quarters of
\* a second (exact for the values that occur: the cap applies before a fraction of a
\* quarter does)
slowDownUncapped(p) == (3 * (IF p = 0 THEN 2 * 4 ELSE p)) \div 2
slowDownInterval(p) ==
  LET old == IF p = 0 THEN 2 * 4 ELSE p
  IN IF 3 * old >= 2 * 10 * 4 THEN 10 * 4 ELSE (3 * old) \div 2

\* --- the authorization server -------------------------------------------
\* what the token endpoint can answer to one poll
TokenPollOutcomes ==
  {[kind |-> "token", status |-> 200, error |-> <<>>, desc |-> <<>>, refresh_token |-> rt] :
      rt \in RefreshTokens}
  \cup
  {[kind |-> "http", status |-> 400, error |-> S_authorization_pending, desc |-> <<>>, refresh_token |-> <<>>],
   [kind |-> "http", status |-> 429, error |-> S_slow_down, desc |-> <<>>, refresh_token |-> <<>>],
   [kind |-> "http", status |-> 400, error |-> S_access_denied, desc |-> S_denied_by_user, refresh_token |-> <<>>],
   [kind |-> "http", status |-> 400, error |-> S_expired_token, desc |-> S_code_expired, refresh_token |-> <<>>],
   [kind |-> "empty", status |-> 200, error |-> <<>>, desc |-> <<>>, refresh_token |-> <<>>],
   [kind |-> "network", status |-> 0, error |-> <<>>, desc |-> <<>>, refresh_token |-> <<>>]}

\* pollDeviceToken: what it returns ("token", "pending", "other") or throws, with the
\* message of the Error it throws
pollDeviceToken(o) ==
  IF o.kind = "network"
    THEN [kind |-> "throw", slowDown |-> FALSE, message |-> S_network]
  ELSE IF o.kind = "token"
    THEN [kind |-> "token", slowDown |-> FALSE, message |-> <<>>]
  ELSE IF o.kind = "empty"
    THEN [kind |-> "other", slowDown |-> FALSE, message |-> <<>>]
  ELSE IF o.status = 400 /\ o.error = S_authorization_pending
    THEN [kind |-> "pending", slowDown |-> FALSE, message |-> <<>>]
  ELSE IF o.status = 429 /\ o.error = S_slow_down
    THEN [kind |-> "pending", slowDown |-> TRUE, message |-> <<>>]
  ELSE [kind |-> "throw", slowDown |-> FALSE,
        message |-> S_prefix \o o.error \o S_sep \o o.desc]

\* the test of the catch block of handleOAuthPoll: a time-out or an expired or
\* invalid device code
EveryErrorIsFatal(message) == TRUE
IsFatalPollError(message) ==
  \/ Includes(message, P_timed_out)
  \/ Includes(message, P_expired)
  \/ Includes(message, P_invalid)
  \/ Includes(message, P_401)


\* what the device-code endpoint can answer to requestDeviceAuthorization: a device
\* code; a status that is not 2xx; a 2xx body with an `error` field
S_http_500 == <<"5", "0", "0">>
S_invalid_client == <<"i", "n", "v", "a", "l", "i", "d", "_", "c", "l", "i", "e", "n", "t">>
DeviceOutcomes ==
  {[ok |-> TRUE, error |-> Null, expires_in |-> e, interval |-> i] :
      e \in ExpiresIn, i \in Intervals}
  \cup {[ok |-> FALSE, error |-> S_http_500, expires_in |-> 0, interval |-> 0],
        [ok |-> TRUE, error |-> S_invalid_client, expires_in |-> 0, interval |-> 0]}

\* requestDeviceAuthorization throws on this answer
OnlyStatusChecked(d) == ~d.ok
DeviceAuthorizationFails(d) == ~d.ok \/ d.error # Null

\* requestDeviceAuthorization + handleOAuthInit: the OAuthState of a new session
NewOAuthState(stateId, d, t) ==
  [deviceCode |-> <<"device_code", stateId>>, userCode |-> <<"user_code", stateId>>,
   codeVerifier |-> <<"code_verifier", stateId>>,
   verificationUri |-> <<"verification_uri", stateId>>,
   verificationUriComplete |-> <<"verification_uri_complete", stateId>>,
   expiresAt |-> t + d.expires_in,
   pollInterval |-> IF d.interval = 0 THEN 2 * 4 ELSE d.interval * 4,
   createdAt |-> t, lastUsedAt |-> t]

\* generateStateId: 16 random bytes; modelled as an id never generated before
generateStateId == CHOOSE s \in StateIds : s \notin issued /\ \A x \in StateIds \ issued : s <= x

\* the in-memory half of safeDeleteOAuthState
KeepInMemory(m, stateId) == m
safeDeleteOAuthState(m, stateId) == IF Has(m, stateId) THEN MapDelete(m, stateId) ELSE m

\* the in-memory half of updateOAuthStateUsage
UsageNotUpdated(m, stateId, t) == m
updateOAuthStateUsage(m, stateId, t) ==
  IF Has(m, stateId) THEN [m EXCEPT ![stateId].lastUsedAt = t] ELSE m

\* tokenStore.set(tokenId, tokenData) of handleOAuthPoll
TokenNotStored(ts, tokenData) == ts
StoreToken(ts, tokenData) == MapSet(ts, getTokenId(tokenData.refresh_token), tokenData)

\* the TokenData handleOAuthPoll builds from an issued token (expires_in absent:
\* 3600 s)
NewTokenData(o, t) ==
  [access_token |-> "access", refresh_token |-> o.refresh_token,
   expires_at |-> t + 60, uploaded_at |-> t]

\* the locals of a handler; `overlapped` is history, kept for the requests that are
\* watched (those whose record starts as Watching): the last poll or cancel that
\* returned while this handler was waiting in acquireLock, as <<op, stateId, status>>
NoTmp == [status |-> "none", calls |-> 0, existed |-> FALSE, token |-> Null, upstream |-> Null,
          overlapped |-> Null]
NoResult == [op |-> "none", sid |-> 0, status |-> "none", calls |-> 0, upstream |-> Null,
             tokenId |-> Null, body |-> {}]

\* The JSON bodies of the responses, each a set of <<field, value>>; a value is
\* <<kind, n>>, and a value taken from a session is that field of the session.
Flag(b) == <<"flag", IF b THEN 1 ELSE 0>>
Text == <<"text", 0>>
Max0(x) == IF x < 0 THEN 0 ELSE x

\* handleOAuthInit: the 200
InitResponseWholeState(stateId, state) ==
  {<<"success", Flag(TRUE)>>, <<"stateId", <<"state_id", stateId>>>>,
   <<"userCode", state.userCode>>, <<"deviceCode", state.deviceCode>>,
   <<"codeVerifier", state.codeVerifier>>,
   <<"verificationUri", state.verificationUri>>,
   <<"verificationUriComplete", state.verificationUriComplete>>,
   <<"expiresAt", <<"time", state.expiresAt>>>>,
   <<"expiresIn", <<"seconds", state.expiresAt - DateNow>>>>}
InitResponse(stateId, state) ==
  {<<"success", Flag(TRUE)>>, <<"stateId", <<"state_id", stateId>>>>,
   <<"userCode", state.userCode>>,
   <<"verificationUri", state.verificationUri>>,
   <<"verificationUriComplete", state.verificationUriComplete>>,
   <<"expiresAt", <<"time", state.expiresAt>>>>,
   <<"expiresIn", <<"seconds", state.expiresAt - DateNow>>>>}

\* handleOAuthPoll: the 200 of authorization_pending and slow_down
PendingResponse(state) ==
  {<<"success", Flag(FALSE)>>, <<"status", Text>>,
   <<"remainingTime", <<"seconds", Max0(state.expiresAt - DateNow)>>>>}

\* every other response of handleOAuthInit, handleOAuthPoll and handleOAuthCancel
PlainResponse(status) ==
  CASE status \in {"error", "missing", "unknown"} -> {<<"error", Text>>}
    [] status \in {"expired", "failure"} -> {<<"success", Flag(FALSE)>>, <<"error", Text>>}
    [] status = "warning" -> {<<"success", Flag(FALSE)>>, <<"status", Text>>, <<"warning", Text>>}
    [] status = "pending" -> {<<"success", Flag(FALSE)>>, <<"status", Text>>}
    [] status = "success" ->
         {<<"success", Flag(TRUE)>>, <<"tokenId", <<"token_id", 0>>>>, <<"message", Text>>}
    [] status = "cancelled" -> {<<"success", Flag(TRUE)>>, <<"message", Text>>}
    [] OTHER -> {}

\* the name a token-endpoint answer goes by in a handler's result
UpstreamName(o) ==
  IF o.kind = "http" THEN o.error ELSE
  IF o.kind = "token" THEN <<"t", "o", "k", "e", "n">> ELSE
  IF o.kind = "empty" THEN <<"e", "m", "p", "t", "y">> ELSE S_network

InitOAuth ==
  /\ requestQueue = <<>>
  /\ apiKeys = <<>>
  /\ currentKeyIndex = 0
  /\ inflight = {}
  /\ responses = [r \in Requests |-> <<>>]
  /\ nextReq = 1
  /\ ticks = 0
  /\ dispatched = <<>>
  /\ waited = [r \in Requests |-> 0]
  /\ ahead = [r \in Requests |-> -1]
  /\ failed = {}
  /\ kvOpen \in BOOLEAN
  /\ advances = 0
  /\ oauthStates = <<>>
  \* the durable store may hold a session an earlier run of the server left behind
  /\ \/ /\ kvStates = <<>>
        /\ issued = {}
     \/ /\ kvOpen
        /\ kvStates = MapSet(<<>>, 1,
              NewOAuthState(1, [ok |-> TRUE, expires_in |-> 100, interval |-> 5], DateNow))
        /\ issued = {1}
  /\ tokenStore = <<>>
  /\ kvTokens = <<>>
  /\ kvListFault = NoFault
  /\ lockAcquired = FALSE
  /\ pc = [p \in Procs |-> "idle"]
  /\ op = [p \in Procs |-> "none"]
  /\ sid = [p \in Procs |-> 0]
  /\ tmp = [p \in Procs |-> NoTmp]
  /\ result = NoResult
  /\ terminal = [s \in 1..MaxSessions |-> <<>>]

\* the locals of all handlers when p returns with `status`: p's are gone, and a
\* handler waiting for the lock has seen p's poll or cancel of a session (a stateId
\* that an init has issued) complete
TmpAfterReturn(p, status) ==
  [q \in Procs |->
     IF q = p THEN NoTmp
     ELSE IF /\ q \in Handlers
             /\ tmp[q].overlapped # Null
             /\ pc[q] = "acquire"
             /\ op[p] \in {"poll", "cancel"}
             /\ sid[p] \in issued
       THEN [tmp[q] EXCEPT !.overlapped = <<op[p], sid[p], status>>]
       ELSE tmp[q]]

Watching == <<"none", 0, "none">>

\* the exits of a handler on which releaseLock() runs: all of them, the call being in
\* the finally block of the try that follows acquireLock
ReleasesUnlessEarlyReturn(status) == status \notin {"missing", "error", "unknown"}
ReleasesOn(status) == TRUE

\* the handler returns, having had the answer `upstream` from the authorization
\* server: `finally { releaseLock() }` and the response
ReturnWith(p, status, upstream) ==
  /\ lockAcquired' = IF ReleasesOn(status) THEN FALSE ELSE lockAcquired
  /\ pc' = [pc EXCEPT ![p] = "idle"]
  /\ result' =
        [op |-> op[p], sid |-> sid[p], status |-> status, calls |-> tmp[p].calls,
         upstream |-> upstream,
         tokenId |-> IF status = "success" THEN getTokenId(tmp[p].token.refresh_token) ELSE Null,
         body |-> IF op[p] = "init" /\ status = "ok"
                  THEN InitResponse(sid[p], oauthStates[sid[p]])
                  ELSE PlainResponse(status)]
  /\ op' = [op EXCEPT ![p] = "none"]
  /\ sid' = [sid EXCEPT ![p] = 0]
  /\ tmp' = TmpAfterReturn(p, status)

Return(p, status) == ReturnWith(p, status, tmp[p].upstream)

\* the handler goes on to its next suspension point (no response yet)
Goto(p, label) ==
  /\ pc' = [pc EXCEPT ![p] = label]
  /\ result' = NoResult

\* an HTTP request for /api/oauth/init, /poll or /cancel arrives
Start(p, o) ==
  /\ p \in Handlers
  /\ pc[p] = "idle"
  \* handlers are interchangeable: the lowest free one takes the request
  /\ \A q \in Handlers : q < p => pc[q] # "idle"
  /\ o = "init" =>
       Cardinality(issued) + Cardinality({q \in Handlers : op[q] = "init"}) < Cardinality(StateIds)
  /\ op' = [op EXCEPT ![p] = o]
  /\ Goto(p, "acquire")
  /\ UNCHANGED <<kvOpen, kvListFault, oauthStates, kvStates, tokenStore, kvTokens, lockAcquired, advances, sid, tmp, issued, terminal>>
  /\ UNCHANGED qvars

\* setInterval(cleanupExpiredOAuthStates, 2 * 60 * 1000) fires
startPeriodicCleanup ==
  /\ pc[Timer] = "idle"
  /\ op' = [op EXCEPT ![Timer] = "cleanup"]
  /\ Goto(Timer, "acquire")
  /\ UNCHANGED <<kvOpen, kvListFault, oauthStates, kvStates, tokenStore, kvTokens, lockAcquired, advances, sid, tmp, issued, terminal>>
  /\ UNCHANGED qvars

\* acquireLock: leaves the wait loop when the flag is clear, and sets it
acquireLock(p) ==
  /\ pc[p] = "acquire"
  /\ LockFree
  /\ lockAcquired' = TRUE
  /\ Goto(p, CASE op[p] = "init" -> "init_fetch"
               [] op[p] = "poll" -> "poll_json"
               [] op[p] = "cancel" -> "cancel_json"
               [] op[p] = "cleanup" -> "clean_mem"
               [] op[p] = "loop" -> "loop_enter")
  /\ UNCHANGED <<kvOpen, kvListFault, oauthStates, kvStates, tokenStore, kvTokens, advances, op, tmp,
                 sid, issued, terminal>>
  /\ UNCHANGED qvars

\* handleOAuthInit, from the answer of the device-code endpoint to `await kv.set`
handleOAuthInit_fetched(p, d) ==
  /\ pc[p] = "init_fetch"
  /\ IF DeviceAuthorizationFails(d)
     THEN /\ ReturnWith(p, "error", d.error)
          /\ UNCHANGED <<oauthStates, issued>>
     ELSE LET stateId == generateStateId
          IN /\ oauthStates' = MapSet(oauthStates, stateId, NewOAuthState(stateId, d, DateNow))
             /\ issued' = issued \cup {stateId}
             /\ sid' = [sid EXCEPT ![p] = stateId]
             /\ tmp' = [tmp EXCEPT ![p].upstream = d.error]
             /\ Goto(p, "init_save")
             /\ UNCHANGED <<lockAcquired, op>>
  /\ UNCHANGED <<kvOpen, kvListFault, kvStates, tokenStore, kvTokens, advances, terminal>>
  /\ UNCHANGED qvars

\* handleOAuthInit, after saveOAuthStateToKv
handleOAuthInit_saved(p) ==
  /\ pc[p] = "init_save"
  /\ kvStates' = KvSet(kvStates, sid[p], oauthStates[sid[p]])
  /\ Return(p, "ok")
  /\ UNCHANGED <<kvOpen, kvListFault, oauthStates, tokenStore, kvTokens, advances, issued, terminal>>
  /\ UNCHANGED qvars

\* handleOAuthPoll, from request.json() (stateId: 0 when the body has none) to the
\* first await of the look-up
handleOAuthPoll_json(p, stateId) ==
  /\ pc[p] = "poll_json"
  /\ IF stateId = 0
     THEN /\ Return(p, "missing")
          /\ UNCHANGED oauthStates
     ELSE IF Has(oauthStates, stateId)
     THEN /\ oauthStates' = updateOAuthStateUsage(oauthStates, stateId, DateNow)
          /\ sid' = [sid EXCEPT ![p] = stateId]
          /\ Goto(p, "poll_usage_save")
          /\ UNCHANGED <<lockAcquired, op, tmp>>
     ELSE /\ sid' = [sid EXCEPT ![p] = stateId]
          /\ Goto(p, "poll_kvload")
          /\ UNCHANGED <<oauthStates, lockAcquired, op, tmp>>
  /\ UNCHANGED <<kvOpen, kvListFault, kvStates, tokenStore, kvTokens, advances, issued, terminal>>
  /\ UNCHANGED qvars

\* handleOAuthPoll, after loadOAuthStateFromKv
handleOAuthPoll_kvloaded(p) ==
  /\ pc[p] = "poll_kvload"
  /\ LET state == loadOAuthStateFromKv(sid[p])
     IN IF state = Null
        THEN /\ Return(p, "unknown")
             /\ UNCHANGED oauthStates
        ELSE /\ oauthStates' = updateOAuthStateUsage(MapSet(oauthStates, sid[p], state), sid[p], DateNow)
             /\ Goto(p, "poll_usage_save")
             /\ UNCHANGED <<lockAcquired, op, sid, tmp>>
  /\ UNCHANGED <<kvOpen, kvListFault, kvStates, tokenStore, kvTokens, advances, issued, terminal>>
  /\ UNCHANGED qvars

\* handleOAuthPoll, after updateOAuthStateUsage: the expiry checks, then the one call
\* of pollDeviceToken
handleOAuthPoll_checked(p) ==
  /\ pc[p] = "poll_usage_save"
  /\ kvStates' = KvSet(kvStates, sid[p], oauthStates[sid[p]])
  /\ LET state == oauthStates[sid[p]]
     IN IF PastGrace(state, DateNow)
        THEN /\ oauthStates' = safeDeleteOAuthState(oauthStates, sid[p])
             /\ tmp' = [tmp EXCEPT ![p].status = "expired"]
             /\ Goto(p, "poll_del")
             /\ UNCHANGED <<lockAcquired, op, sid>>
        ELSE IF NearExpiry(state, DateNow)
        THEN /\ Return(p, "warning")
             /\ UNCHANGED oauthStates
        ELSE /\ tmp' = [tmp EXCEPT ![p].calls = @ + 1]
             /\ Goto(p, "poll_fetch")
             /\ UNCHANGED <<oauthStates, lockAcquired, op, sid>>
  /\ UNCHANGED <<kvOpen, kvListFault, tokenStore, kvTokens, advances, issued, terminal>>
  /\ UNCHANGED qvars

\* handleOAuthPoll, when pollDeviceToken settles
handleOAuthPoll_fetched(p, o) ==
  /\ pc[p] = "poll_fetch"
  /\ LET r == pollDeviceToken(o)
         seen == [tmp EXCEPT ![p].upstream = UpstreamName(o)]
         Evict == /\ oauthStates' = safeDeleteOAuthState(oauthStates, sid[p])
                  /\ tmp' = [seen EXCEPT ![p].status = "failure"]
                  /\ Goto(p, "poll_del")
                  /\ UNCHANGED <<tokenStore, lockAcquired, op, sid>>
         Pending(body) ==
                    /\ lockAcquired' = FALSE
                    /\ pc' = [pc EXCEPT ![p] = "idle"]
                    /\ result' =
                          [op |-> op[p], sid |-> sid[p], status |-> "pending",
                           calls |-> tmp[p].calls, upstream |-> UpstreamName(o),
                           tokenId |-> Null, body |-> body]
                    /\ op' = [op EXCEPT ![p] = "none"]
                    /\ sid' = [sid EXCEPT ![p] = 0]
                    /\ tmp' = TmpAfterReturn(p, "pending")
                    /\ UNCHANGED tokenStore
     IN CASE r.kind = "token" ->
               LET tokenData == NewTokenData(o, DateNow)
               IN /\ tokenStore' = StoreToken(tokenStore, tokenData)
                  /\ tmp' = [seen EXCEPT ![p].token = tokenData, ![p].status = "success"]
                  /\ Goto(p, "poll_token_save")
                  /\ UNCHANGED <<oauthStates, lockAcquired, op, sid>>
          [] r.kind = "pending" ->
               /\ oauthStates' =
                    IF r.slowDown
                    THEN [oauthStates EXCEPT ![sid[p]].pollInterval = slowDownInterval(@)]
                    ELSE oauthStates
               /\ Pending(PendingResponse(oauthStates[sid[p]]))
          [] r.kind = "other" -> Evict
          [] r.kind = "throw" ->
               IF IsFatalPollError(r.message)
               THEN Evict
               ELSE /\ Pending(PlainResponse("pending"))
                    /\ UNCHANGED oauthStates
  /\ UNCHANGED <<kvOpen, kvListFault, kvStates, kvTokens, advances, issued, terminal>>
  /\ UNCHANGED qvars

\* handleOAuthPoll, after saveTokenToKv: safeDeleteOAuthState begins
handleOAuthPoll_tokenSaved(p) ==
  /\ pc[p] = "poll_token_save"
  /\ kvTokens' = KvSet(kvTokens, getTokenId(tmp[p].token.refresh_token), tmp[p].token)
  /\ oauthStates' = safeDeleteOAuthState(oauthStates, sid[p])
  /\ Goto(p, "poll_del")
  /\ UNCHANGED <<kvOpen, kvListFault, kvStates, tokenStore, lockAcquired, advances, op, sid, tmp,
                 issued, terminal>>
  /\ UNCHANGED qvars

TerminalOf(status) ==
  CASE status = "success" -> "SUCCESS"
    [] status = "expired" -> "EXPIRED"
    [] status = "failure" -> "FAILED"

\* handleOAuthPoll, after deleteOAuthStateFromKv: the terminal response
handleOAuthPoll_deleted(p) ==
  /\ pc[p] = "poll_del"
  /\ kvStates' = KvDelete(kvStates, sid[p])
  /\ terminal' = [terminal EXCEPT ![sid[p]] = Append(@, TerminalOf(tmp[p].status))]
  /\ Return(p, tmp[p].status)
  /\ UNCHANGED <<kvOpen, kvListFault, oauthStates, tokenStore, kvTokens, advances, issued>>
  /\ UNCHANGED qvars

\* handleOAuthCancel, from request.json() (stateId: 0 when the body has none) to
\* `await deleteOAuthStateFromKv`
handleOAuthCancel_json(p, stateId) ==
  /\ pc[p] = "cancel_json"
  /\ IF stateId = 0
     THEN /\ Return(p, "cancelled")
          /\ UNCHANGED oauthStates
     ELSE /\ oauthStates' = safeDeleteOAuthState(oauthStates, stateId)
          /\ tmp' = [tmp EXCEPT ![p].existed = Has(oauthStates, stateId) \/ Has(kvStates, stateId)]
          /\ sid' = [sid EXCEPT ![p] = stateId]
          /\ Goto(p, "cancel_del")
          /\ UNCHANGED <<lockAcquired, op>>
  /\ UNCHANGED <<kvOpen, kvListFault, kvStates, tokenStore, kvTokens, advances, issued, terminal>>
  /\ UNCHANGED qvars

\* handleOAuthCancel, after deleteOAuthStateFromKv
handleOAuthCancel_deleted(p) ==
  /\ pc[p] = "cancel_del"
  /\ kvStates' = KvDelete(kvStates, sid[p])
  /\ terminal' = [terminal EXCEPT ![sid[p]] =
        IF tmp[p].existed THEN Append(@, "CANCELLED") ELSE @]
  /\ Return(p, "cancelled")
  /\ UNCHANGED <<kvOpen, kvListFault, oauthStates, tokenStore, kvTokens, advances, issued>>
  /\ UNCHANGED qvars

\* --- pollUntilTokenReceived ------------------------------------------------
\* maxAttempts of pollUntilTokenReceived (300 in the source)
MaxAttempts == 2

P_invalid_device_code ==
  <<"i", "n", "v", "a", "l", "i", "d", "_", "d", "e", "v", "i", "c", "e", "_", "c", "o", "d", "e">>

\* the test of the catch block of pollUntilTokenReceived
IsFatalLoopError(message) ==
  \/ Includes(message, P_401)
  \/ Includes(message, P_invalid_device_code)
  \/ Includes(message, S_expired_token)

\* pollUntilTokenReceived(stateId) is called
pollUntilTokenReceived_called(p, stateId) ==
  /\ p \in Handlers
  /\ pc[p] = "idle"
  /\ \A q \in Handlers : q < p => pc[q] # "idle"
  /\ op' = [op EXCEPT ![p] = "loop"]
  /\ sid' = [sid EXCEPT ![p] = stateId]
  /\ Goto(p, "acquire")
  /\ UNCHANGED <<kvOpen, kvListFault, oauthStates, kvStates, tokenStore, kvTokens, lockAcquired,
                 advances, tmp, issued, terminal>>
  /\ UNCHANGED qvars

\* the head of the loop: `attempt < maxAttempts` (every earlier attempt has made its
\* call), then updateOAuthStateUsage up to its await; after the last attempt
\* safeDeleteOAuthState up to its await
LoopAgain(p) ==
  IF tmp[p].calls < MaxAttempts
  THEN /\ oauthStates' = updateOAuthStateUsage(oauthStates, sid[p], DateNow)
       /\ Goto(p, "loop_usage_save")
       /\ UNCHANGED <<lockAcquired, op, sid, tmp>>
  ELSE /\ oauthStates' = safeDeleteOAuthState(oauthStates, sid[p])
       /\ tmp' = [tmp EXCEPT ![p].status = "expired"]
       /\ Goto(p, "loop_del")
       /\ UNCHANGED <<lockAcquired, op, sid>>

\* pollUntilTokenReceived, from acquireLock to the first await
pollUntilTokenReceived_entered(p) ==
  /\ pc[p] = "loop_enter"
  /\ IF ~Has(oauthStates, sid[p])
     THEN /\ Return(p, "error")
          /\ UNCHANGED oauthStates
     ELSE LoopAgain(p)
  /\ UNCHANGED <<kvOpen, kvListFault, kvStates, tokenStore, kvTokens, advances, issued, terminal>>
  /\ UNCHANGED qvars

\* pollUntilTokenReceived, after updateOAuthStateUsage: the time-out check, then the
\* call of pollDeviceToken
pollUntilTokenReceived_checked(p) ==
  /\ pc[p] = "loop_usage_save"
  /\ kvStates' = KvSet(kvStates, sid[p], oauthStates[sid[p]])
  /\ IF DateNow > oauthStates[sid[p]].expiresAt
     THEN /\ oauthStates' = safeDeleteOAuthState(oauthStates, sid[p])
          /\ tmp' = [tmp EXCEPT ![p].status = "expired"]
          /\ Goto(p, "loop_del")
     ELSE /\ tmp' = [tmp EXCEPT ![p].calls = @ + 1]
          /\ Goto(p, "loop_fetch")
          /\ UNCHANGED oauthStates
  /\ UNCHANGED <<kvOpen, kvListFault, tokenStore, kvTokens, lockAcquired, advances, op, sid,
                 issued, terminal>>
  /\ UNCHANGED qvars

\* pollUntilTokenReceived, when pollDeviceToken settles
pollUntilTokenReceived_fetched(p, o) ==
  /\ pc[p] = "loop_fetch"
  /\ LET r == pollDeviceToken(o)
     IN CASE r.kind = "token" ->
               /\ oauthStates' = safeDeleteOAuthState(oauthStates, sid[p])
               /\ tmp' = [tmp EXCEPT ![p].token = NewTokenData(o, DateNow),
                                     ![p].status = "success"]
               /\ Goto(p, "loop_del")
               /\ UNCHANGED <<lockAcquired, op, sid>>
          [] r.kind = "pending" ->
               /\ Goto(p, "loop_sleep")
               /\ UNCHANGED <<oauthStates, lockAcquired, op, sid, tmp>>
          [] r.kind = "other" -> LoopAgain(p)
          [] r.kind = "throw" ->
               IF IsFatalLoopError(r.message)
               THEN /\ oauthStates' = safeDeleteOAuthState(oauthStates, sid[p])
                    /\ tmp' = [tmp EXCEPT ![p].status = "failure"]
                    /\ Goto(p, "loop_del")
                    /\ UNCHANGED <<lockAcquired, op, sid>>
               ELSE /\ Goto(p, "loop_sleep")
                    /\ UNCHANGED <<oauthStates, lockAcquired, op, sid, tmp>>
  /\ UNCHANGED <<kvOpen, kvListFault, kvStates, tokenStore, kvTokens, advances, issued, terminal>>
  /\ UNCHANGED qvars

\* pollUntilTokenReceived, when the setTimeout of pollInterval seconds fires
pollUntilTokenReceived_slept(p) ==
  /\ pc[p] = "loop_sleep"
  /\ LoopAgain(p)
  /\ UNCHANGED <<kvOpen, kvListFault, kvStates, tokenStore, kvTokens, advances, issued, terminal>>
  /\ UNCHANGED qvars

\* pollUntilTokenReceived, after deleteOAuthStateFromKv: return or throw, and
\* `finally { releaseLock() }`
pollUntilTokenReceived_deleted(p) ==
  /\ pc[p] = "loop_del"
  /\ kvStates' = KvDelete(kvStates, sid[p])
  /\ terminal' = [terminal EXCEPT ![sid[p]] = Append(@, TerminalOf(tmp[p].status))]
  /\ Return(p, tmp[p].status)
  /\ UNCHANGED <<kvOpen, kvListFault, oauthStates, tokenStore, kvTokens, advances, issued>>
  /\ UNCHANGED qvars

\* sessions of map m that cleanupExpiredOAuthStates deletes at time t
ExpiredIn(m, t) == {s \in DOMAIN m : shouldDelete(m[s], t)}
Without(m, S) == [x \in DOMAIN m \ S |-> m[x]]

\* cleanupExpiredOAuthStates: the pass over the in-memory map
cleanupExpiredOAuthStates_memory ==
  /\ pc[Timer] = "clean_mem"
  /\ LET expiredStates == ExpiredIn(oauthStates, DateNow)
     IN /\ oauthStates' = Without(oauthStates, expiredStates)
        /\ kvStates' = IF kvOpen THEN Without(kvStates, expiredStates) ELSE kvStates
        /\ terminal' = [s \in StateIds |->
              IF s \in expiredStates THEN Append(terminal[s], "EXPIRED") ELSE terminal[s]]
        \* history: this pass found a session to delete in memory
        /\ tmp' = [tmp EXCEPT ![Timer].existed = (expiredStates # {})]
  /\ Goto(Timer, "clean_kv")
  /\ UNCHANGED <<kvOpen, kvListFault, tokenStore, kvTokens, lockAcquired, advances, op, sid, issued>>
  /\ UNCHANGED qvars

\* cleanupExpiredOAuthStates: the pass over the durable store, then releaseLock
cleanupExpiredOAuthStates_kv ==
  /\ pc[Timer] = "clean_kv"
  /\ LET expiredStates == IF kvOpen THEN ExpiredIn(kvStates, DateNow) ELSE {}
     IN /\ kvStates' = Without(kvStates, expiredStates)
        /\ terminal' = [s \in StateIds |->
              IF s \in expiredStates THEN Append(terminal[s], "EXPIRED") ELSE terminal[s]]
  /\ Return(Timer, "cleaned")
  /\ UNCHANGED <<kvOpen, kvListFault, oauthStates, tokenStore, kvTokens, advances, issued>>
  /\ UNCHANGED qvars

\* the suspension points at which a handler waits for the durable store; these
\* waits are short against the minute the clock counts in
KvAwaits == {"init_save", "poll_kvload", "poll_usage_save", "poll_token_save", "poll_del",
             "cancel_del", "clean_mem", "clean_kv", "loop_usage_save", "loop_del"}

\* a timestamp x after d minutes have passed; it is not lowered below floor
Later(x, d, floor) == IF x - d < floor THEN floor ELSE x - d

AgeState(state, d) ==
  [state EXCEPT !.expiresAt = Later(@, d, -(GRACE + 1)),
                !.lastUsedAt = Later(@, d, -(IDLE_LIMIT + 1)),
                !.createdAt = Later(@, d, -(AGE_LIMIT + 1))]

AgeToken(token, d) ==
  [token EXCEPT !.expires_at = Later(@, d, -1),
                !.uploaded_at = Later(@, d, -1)]

\* d minutes pass (while no handler is waiting for the durable store)
Tick(d) ==
  /\ advances < MaxAdvances
  /\ \A p \in Procs : pc[p] \notin KvAwaits
  /\ advances' = advances + 1
  /\ oauthStates' = [s \in DOMAIN oauthStates |-> AgeState(oauthStates[s], d)]
  /\ kvStates' = [s \in DOMAIN kvStates |-> AgeState(kvStates[s], d)]
  /\ tokenStore' = [i \in DOMAIN tokenStore |-> AgeToken(tokenStore[i], d)]
  /\ kvTokens' = [i \in DOMAIN kvTokens |-> AgeToken(kvTokens[i], d)]
  /\ result' = NoResult
  /\ UNCHANGED <<kvOpen, kvListFault, lockAcquired, pc, op, sid, tmp, issued, terminal>>
  /\ UNCHANGED qvars

StartStep == \E p \in Handlers, o \in {"init", "poll", "cancel"} : Start(p, o)
AcquireStep == \E p \in Procs : acquireLock(p)
InitFetchedStep == \E p \in Handlers, d \in DeviceOutcomes : handleOAuthInit_fetched(p, d)
InitSavedStep == \E p \in Handlers : handleOAuthInit_saved(p)
PollJsonStep == \E p \in Handlers, s \in StateIds \cup {0} : handleOAuthPoll_json(p, s)
PollKvLoadedStep == \E p \in Handlers : handleOAuthPoll_kvloaded(p)
PollCheckedStep == \E p \in Handlers : handleOAuthPoll_checked(p)
PollFetchedStep == \E p \in Handlers, o \in TokenPollOutcomes : handleOAuthPoll_fetched(p, o)
PollTokenSavedStep == \E p \in Handlers : handleOAuthPoll_tokenSaved(p)
PollDeletedStep == \E p \in Handlers : handleOAuthPoll_deleted(p)
CancelJsonStep == \E p \in Handlers, s \in StateIds \cup {0} : handleOAuthCancel_json(p, s)
CancelDeletedStep == \E p \in Handlers : handleOAuthCancel_deleted(p)
TickStep == \E d \in Deltas : Tick(d)

NextOAuth ==
  \/ StartStep
  \/ startPeriodicCleanup
  \/ AcquireStep
  \/ InitFetchedStep
  \/ InitSavedStep
  \/ PollJsonStep
  \/ PollKvLoadedStep
  \/ PollCheckedStep
  \/ PollFetchedStep
  \/ PollTokenSavedStep
  \/ PollDeletedStep
  \/ CancelJsonStep
  \/ CancelDeletedStep
  \/ cleanupExpiredOAuthStates_memory
  \/ cleanupExpiredOAuthStates_kv
  \/ TickStep

SpecOAuth == InitOAuth /\ [][NextOAuth]_vars

\* --- the same handlers under a clock that never stops ------------------------
\* d minutes pass; the timestamps stop being lowered at their floors, so the clock
\* needs no bound of its own
Elapse(d) ==
  /\ \A p \in Procs : pc[p] \notin KvAwaits
  /\ oauthStates' = [s \in DOMAIN oauthStates |-> AgeState(oauthStates[s], d)]
  /\ kvStates' = [s \in DOMAIN kvStates |-> AgeState(kvStates[s], d)]
  /\ tokenStore' = [i \in DOMAIN tokenStore |-> AgeToken(tokenStore[i], d)]
  /\ kvTokens' = [i \in DOMAIN kvTokens |-> AgeToken(kvTokens[i], d)]
  /\ result' = NoResult
  /\ UNCHANGED <<kvOpen, kvListFault, lockAcquired, advances, pc, op, sid, tmp, issued, terminal>>
  /\ UNCHANGED qvars

\* the steps by which the clock is seen to advance: half the idle limit, so that a
\* client can poll often enough never to be idle
LiveDeltas == {IDLE_LIMIT \div 2}
ElapseStep == \E d \in LiveDeltas : Elapse(d)

\* the steps of a handler between taking the lock and releasing it
HandlerBody ==
  \/ InitFetchedStep
  \/ InitSavedStep
  \/ PollJsonStep
  \/ PollKvLoadedStep
  \/ PollCheckedStep
  \/ PollFetchedStep
  \/ PollTokenSavedStep
  \/ PollDeletedStep
  \/ CancelJsonStep
  \/ CancelDeletedStep

NextOAuthLive ==
  \/ StartStep
  \/ startPeriodicCleanup
  \/ AcquireStep
  \/ HandlerBody
  \/ cleanupExpiredOAuthStates_memory
  \/ cleanupExpiredOAuthStates_kv
  \/ ElapseStep

\* Time advances; setInterval keeps firing and the cleanup it starts gets the lock
\* when the lock keeps becoming free; upstream calls and kv operations settle, so a
\* handler that holds the lock goes on to release it.  Nothing is assumed of the
\* clients: requests may stop or go on forever.
LiveOAuth ==
  /\ SF_vars(ElapseStep)
  /\ WF_vars(startPeriodicCleanup)
  /\ SF_vars(acquireLock(Timer))
  /\ WF_vars(cleanupExpiredOAuthStates_memory)
  /\ WF_vars(cleanupExpiredOAuthStates_kv)
  /\ WF_vars(HandlerBody)

SpecOAuthLive == InitOAuth /\ [][NextOAuthLive]_vars /\ LiveOAuth

\* --- runs short against the clock: several sessions, no time passes ---------
\* a session an earlier run of the server left in the durable store: created a minute
\* ago, or (stale) past its expiry, its idle limit and its age limit
LeftBehind(stateId, stale) ==
  IF stale
  THEN AgeState(NewOAuthState(stateId, [ok |-> TRUE, expires_in |-> 1, interval |-> 5], DateNow),
                AGE_LIMIT + 1)
  ELSE AgeState(NewOAuthState(stateId, [ok |-> TRUE, expires_in |-> 100, interval |-> 5], DateNow),
                1)

InitOAuthPair ==
  /\ requestQueue = <<>>
  /\ apiKeys = <<>>
  /\ currentKeyIndex = 0
  /\ inflight = {}
  /\ responses = [r \in Requests |-> <<>>]
  /\ nextReq = 1
  /\ ticks = 0
  /\ dispatched = <<>>
  /\ waited = [r \in Requests |-> 0]
  /\ ahead = [r \in Requests |-> -1]
  /\ failed = {}
  /\ kvOpen \in BOOLEAN
  /\ advances = 0
  /\ oauthStates = <<>>
  /\ \/ /\ kvStates = <<>>
        /\ issued = {}
     \/ /\ kvOpen
        /\ \E stale \in BOOLEAN : kvStates = MapSet(<<>>, 1, LeftBehind(1, stale))
        /\ issued = {1}
  /\ tokenStore = <<>>
  /\ kvTokens = <<>>
  /\ kvListFault = NoFault
  /\ lockAcquired = FALSE
  /\ pc = [p \in Procs |-> "idle"]
  /\ op = [p \in Procs |-> "none"]
  /\ sid = [p \in Procs |-> 0]
  /\ tmp = [p \in Procs |-> NoTmp]
  /\ result = NoResult
  /\ terminal = [s \in 1..MaxPairSessions |-> <<>>]

NextOAuthPair ==
  \/ StartStep
  \/ startPeriodicCleanup
  \/ AcquireStep
  \/ InitFetchedStep
  \/ InitSavedStep
  \/ PollJsonStep
  \/ PollKvLoadedStep
  \/ PollCheckedStep
  \/ PollFetchedStep
  \/ PollTokenSavedStep
  \/ PollDeletedStep
  \/ CancelJsonStep
  \/ CancelDeletedStep
  \/ cleanupExpiredOAuthStates_memory
  \/ cleanupExpiredOAuthStates_kv

SpecOAuthPair == InitOAuthPair /\ [][NextOAuthPair]_vars

\* --- waiting for the lock ------------------------------------------------------
\* A waiter of acquireLock looks at the flag every 10 ms: it gets the lock if the
\* lock stays free, and nothing makes it see a lock that is free only between two of
\* its looks.  A holder's upstream calls and kv operations settle, so it goes on to
\* release the lock.  Nothing is assumed of the clients.
LiveLock ==
  /\ \A p \in Procs : WF_vars(acquireLock(p))
  /\ WF_vars(HandlerBody)
  /\ WF_vars(cleanupExpiredOAuthStates_memory)
  /\ WF_vars(cleanupExpiredOAuthStates_kv)

SpecLockLive == InitOAuth /\ [][NextOAuthPair]_vars /\ LiveLock

\* --- the loop that polls until the token is issued ---------------------------
LoopCallStep == \E p \in Handlers, s \in StateIds : pollUntilTokenReceived_called(p, s)
LoopEnteredStep == \E p \in Handlers : pollUntilTokenReceived_entered(p)
LoopCheckedStep == \E p \in Handlers : pollUntilTokenReceived_checked(p)
LoopFetchedStep == \E p \in Handlers, o \in TokenPollOutcomes : pollUntilTokenReceived_fetched(p, o)
LoopSleptStep == \E p \in Handlers : pollUntilTokenReceived_slept(p)
LoopDeletedStep == \E p \in Handlers : pollUntilTokenReceived_deleted(p)

NextPollLoop ==
  \/ NextOAuthPair
  \/ LoopCallStep
  \/ LoopEnteredStep
  \/ LoopCheckedStep
  \/ LoopFetchedStep
  \/ LoopSleptStep
  \/ LoopDeletedStep

SpecPollLoop == InitOAuth /\ [][NextPollLoop]_vars

\* --- two requests racing for a session --------------------------------------
\* A session exists (created by an init and persisted, or left stale in the durable
\* store by an earlier run); the first request of each handler is watched.
InitOAuthRace ==
  /\ requestQueue = <<>>
  /\ apiKeys = <<>>
  /\ currentKeyIndex = 0
  /\ inflight = {}
  /\ responses = [r \in Requests |-> <<>>]
  /\ nextReq = 1
  /\ ticks = 0
  /\ dispatched = <<>>
  /\ waited = [r \in Requests |-> 0]
  /\ ahead = [r \in Requests |-> -1]
  /\ failed = {}
  /\ kvOpen \in BOOLEAN
  /\ advances = 0
  /\ issued = {1}
  /\ \/ LET d == [ok |-> TRUE, expires_in |-> 100, interval |-> 5]
        IN /\ oauthStates = MapSet(<<>>, 1, NewOAuthState(1, d, DateNow))
           /\ kvStates = KvSet(<<>>, 1, NewOAuthState(1, d, DateNow))
     \/ /\ kvOpen
        /\ oauthStates = <<>>
        /\ kvStates = MapSet(<<>>, 1, LeftBehind(1, TRUE))
  /\ tokenStore = <<>>
  /\ kvTokens = <<>>
  /\ kvListFault = NoFault
  /\ lockAcquired = FALSE
  /\ pc = [p \in Procs |-> "idle"]
  /\ op = [p \in Procs |-> "none"]
  /\ sid = [p \in Procs |-> 0]
  /\ tmp = [p \in Procs |-> IF p \in Handlers THEN [NoTmp EXCEPT !.overlapped = Watching]
                                               ELSE NoTmp]
  /\ result = NoResult
  /\ terminal = [s \in 1..MaxPairSessions |-> <<>>]

SpecOAuthRace == InitOAuthRace /\ [][NextOAuthPair]_vars

\* ---------------------------------------------------------------------
\* The token pool of the Qwen gateway: tokenStore and the durable entries
\* ["tokens", id], as the handlers of /api/upload-token, /api/token-status,
\* /api/refresh-token, /api/refresh-single-token, /api/delete-token,
\* /api/delete-all-tokens and getValidToken (the selection /api/chat makes) leave
\* them.  A handler is taken as one step: requests are served one after the other.
\* ---------------------------------------------------------------------
RT_D == <<"r", "t", "-", "d", "-", "l", "o", "n", "g", "e", "r">>
\* the refresh token the token endpoint hands out on a refresh
RT_N == <<"n", "e", "w", "-", "r", "e", "f", "r", "e", "s", "h">>

\* bodies of POST /api/upload-token; expires_at 0 stands for a body without
\* expires_at and expiry_date, -1 for an instant already past
UploadBodies ==
  {[access_token |-> "a1", refresh_token |-> RT_A, expires_at |-> 0],
   [access_token |-> "a2", refresh_token |-> RT_B, expires_at |-> 0],
   [access_token |-> "a2", refresh_token |-> RT_B, expires_at |-> -1],
   [access_token |-> "a3", refresh_token |-> RT_C, expires_at |-> -1],
   [access_token |-> "a1", refresh_token |-> <<>>, expires_at |-> 0],
   [access_token |-> "", refresh_token |-> RT_A, expires_at |-> 0]}

\* the tokenId of a request body (<<>>: none)
TokenIds == {getTokenId(b.refresh_token) : b \in UploadBodies}
\* the ids a pool can hold a record under
PoolIds == {getTokenId(RT_A), getTokenId(RT_C), getTokenId(RT_D)}

\* what the token endpoint can answer to a refresh_token grant: a status that is not
\* 2xx; no answer (fetch or response.json() throws); a token with a new refresh token
\* and expires_in (minutes); a token without either
RefreshOutcomes ==
  {[kind |-> "rejected", access_token |-> "", refresh_token |-> <<>>, expires_in |-> 0],
   [kind |-> "throw", access_token |-> "", refresh_token |-> <<>>, expires_in |-> 0],
   [kind |-> "token", access_token |-> "r1", refresh_token |-> RT_N, expires_in |-> 30],
   [kind |-> "token", access_token |-> "r1", refresh_token |-> <<>>, expires_in |-> 0]}

\* forceRefreshToken / validateAndRefreshToken return null on this answer
OnlyRejectionFails(o) == o.kind = "rejected"
RefreshFails(o) == o.kind \in {"rejected", "throw"}

\* the TokenData handleUploadToken builds, at time t
UploadedTokenData(b, t) ==
  [access_token |-> b.access_token, refresh_token |-> b.refresh_token,
   expires_at |-> IF b.expires_at # 0 THEN t + b.expires_at ELSE t + 60,
   uploaded_at |-> t]

\* updatedTokenData of forceRefreshToken / validateAndRefreshToken, at time t
UpdatedWithNewUpload(token, o, t) ==
  [access_token |-> o.access_token,
   refresh_token |-> IF o.refresh_token # <<>> THEN o.refresh_token ELSE token.refresh_token,
   expires_at |-> IF o.expires_in # 0 THEN t + o.expires_in ELSE t + 60,
   uploaded_at |-> t]
updatedTokenData(token, o, t) ==
  [access_token |-> o.access_token,
   refresh_token |-> IF o.refresh_token # <<>> THEN o.refresh_token ELSE token.refresh_token,
   expires_at |-> IF o.expires_in # 0 THEN t + o.expires_in ELSE t + 60,
   uploaded_at |-> token.uploaded_at]

\* isExpired = token.expires_at ? Date.now() > token.expires_at : false (expires_at
\* is always set, and not 0 as an absolute instant)
isExpired(token, t) == t > token.expires_at

\* kv.list yields the entries in the order of their keys: the ids of the model in
\* that order, and the place of one of them
KeyOrder == <<getTokenId(RT_N), getTokenId(RT_A), getTokenId(RT_C), getTokenId(RT_D)>>
Position(id) == CHOOSE i \in 1..Len(KeyOrder) : KeyOrder[i] = id
\* tokenStore.clear() followed by tokenStore.set for the first k entries of kvm: what
\* the loop has done when the read after the k-th entry throws
FirstEntries(kvm, k) ==
  [id \in {i \in DOMAIN kvm :
             Cardinality({j \in DOMAIN kvm : Position(j) < Position(i)}) < k} |-> kvm[id]]

\* loadTokensFromKv: tokenStore as it leaves it (a throw of the iteration is caught and logged)
LoadClears(ts) == kvTokens
loadTokensFromKv(ts) ==
  IF ~kvOpen THEN ts
  ELSE IF kvListFault = NoFault THEN kvTokens
  ELSE FirstEntries(kvTokens, kvListFault)

\* the ids of pool `ts` on which a refresh is attempted, and on which it fails, when
\* the token endpoint answers f[id]; forced: whether expired or not
Attempted(ts, forced, t) == {id \in DOMAIN ts : forced \/ isExpired(ts[id], t)}
FailedIds(ts, f, forced, t) == {id \in Attempted(ts, forced, t) : RefreshFails(f[id])}

\* the pool after the refreshes: tokenStore.set(id, updatedTokenData) for every
\* refresh that succeeded
Refreshed(ts, f, forced, t) ==
  [id \in DOMAIN ts |->
     IF id \in Attempted(ts, forced, t) /\ ~RefreshFails(f[id])
     THEN updatedTokenData(ts[id], f[id], t)
     ELSE ts[id]]

\* the durable entries after saveTokenToKv of every record of S
KvSaveAll(kvm, ts, S) ==
  IF kvOpen THEN [id \in DOMAIN kvm \cup S |-> IF id \in S THEN ts[id] ELSE kvm[id]] ELSE kvm
\* the durable entries after deleteTokenFromKv of every id of S
KvDeleteNone(kvm, S) == kvm
KvDeleteAll(kvm, S) == IF kvOpen THEN Without(kvm, S) ELSE kvm

\* the response of a token handler in the step just taken: the id, record or count it
\* reports and (token-status, refresh-token) what it reports per id; and, as history
\* of the step, the ids an upstream refresh was called for with the answer each got,
\* and the record an upload found under its id
TokenResult(o, status) ==
  [op |-> o, status |-> status, calls |-> {}, answers |-> <<>>, id |-> <<>>,
   token |-> <<>>, count |-> 0, listed |-> <<>>, before |-> <<>>]

\* handleUploadToken
handleUploadToken(b) ==
  /\ IF b.access_token = "" \/ b.refresh_token = <<>>
     THEN /\ result' = TokenResult("upload", "missing")
          /\ UNCHANGED <<tokenStore, kvTokens>>
     ELSE LET tokenId == getTokenId(b.refresh_token)
              tokenData == UploadedTokenData(b, DateNow)
          IN /\ tokenStore' = MapSet(tokenStore, tokenId, tokenData)
             /\ kvTokens' = KvSet(kvTokens, tokenId, tokenData)
             /\ result' = [TokenResult("upload", "ok") EXCEPT
                             !.id = tokenId, !.token = tokenData,
                             !.before = IF Has(tokenStore, tokenId)
                                        THEN tokenStore[tokenId] ELSE <<>>]
  /\ UNCHANGED <<kvOpen, kvListFault, oauthStates, kvStates, lockAcquired, advances, pc, op, sid, tmp,
                 issued, terminal>>
  /\ UNCHANGED qvars

\* one entry of the tokens array of handleTokenStatus
StatusEntry(old, new, refreshFailed) ==
  [expiresAt |-> IF refreshFailed THEN old.expires_at ELSE new.expires_at,
   isExpired |-> refreshFailed,
   uploadedAt |-> IF refreshFailed THEN old.uploaded_at ELSE new.uploaded_at]

\* handleTokenStatus, the token endpoint answering f[id] for record id
handleTokenStatus(f) ==
  LET loaded == loadTokensFromKv(tokenStore)
      tried == Attempted(loaded, FALSE, DateNow)
      rejectedIds == FailedIds(loaded, f, FALSE, DateNow)
      after == Refreshed(loaded, f, FALSE, DateNow)
  IN /\ tokenStore' = after
     /\ kvTokens' = KvSaveAll(kvTokens, after, tried \ rejectedIds)
     /\ result' = [TokenResult("status", "ok") EXCEPT
                     !.calls = tried, !.answers = f,
                     !.count = Cardinality(DOMAIN after),
                     !.listed = [id \in DOMAIN loaded |->
                                   StatusEntry(loaded[id], after[id], id \in rejectedIds)]]
     /\ UNCHANGED <<kvOpen, kvListFault, oauthStates, kvStates, lockAcquired, advances, pc, op, sid,
                    tmp, issued, terminal>>
     /\ UNCHANGED qvars

\* handleRefreshSingleToken, tokenId <<>> standing for a body without one
handleRefreshSingleToken(tokenId, o) ==
  /\ IF tokenId = <<>>
     THEN /\ result' = TokenResult("refresh-single", "missing")
          /\ UNCHANGED <<tokenStore, kvTokens>>
     ELSE LET loaded == loadTokensFromKv(tokenStore)
          IN IF ~Has(loaded, tokenId)
             THEN /\ tokenStore' = loaded
                  /\ result' = [TokenResult("refresh-single", "notfound") EXCEPT !.id = tokenId]
                  /\ UNCHANGED kvTokens
             ELSE IF RefreshFails(o)
             THEN /\ tokenStore' = MapDelete(loaded, tokenId)
                  /\ kvTokens' = KvDeleteAll(kvTokens, {tokenId})
                  /\ result' = [TokenResult("refresh-single", "failed") EXCEPT
                                  !.id = tokenId, !.calls = {tokenId},
                                  !.answers = MapSet(<<>>, tokenId, o)]
             ELSE LET updated == updatedTokenData(loaded[tokenId], o, DateNow)
                  IN /\ tokenStore' = MapSet(loaded, tokenId, updated)
                     /\ kvTokens' = KvSet(kvTokens, tokenId, updated)
                     /\ result' = [TokenResult("refresh-single", "ok") EXCEPT
                                     !.id = tokenId, !.calls = {tokenId}, !.token = updated,
                                     !.answers = MapSet(<<>>, tokenId, o)]
  /\ UNCHANGED <<kvOpen, kvListFault, oauthStates, kvStates, lockAcquired, advances, pc, op, sid, tmp,
                 issued, terminal>>
  /\ UNCHANGED qvars

\* handleRefreshToken (refresh all), the token endpoint answering f[id] for record id
handleRefreshToken(f) ==
  LET loaded == loadTokensFromKv(tokenStore)
      tokensToRemove == FailedIds(loaded, f, TRUE, DateNow)
      after == Refreshed(loaded, f, TRUE, DateNow)
  IN /\ IF DOMAIN loaded = {}
        THEN /\ tokenStore' = loaded
             /\ result' = TokenResult("refresh-all", "empty")
             /\ UNCHANGED kvTokens
        ELSE /\ tokenStore' = Without(after, tokensToRemove)
             /\ kvTokens' = KvDeleteAll(KvSaveAll(kvTokens, after, DOMAIN loaded \ tokensToRemove),
                                        tokensToRemove)
             /\ result' = [TokenResult("refresh-all", "ok") EXCEPT
                             !.calls = DOMAIN loaded, !.answers = f,
                             !.count = Cardinality(DOMAIN loaded \ tokensToRemove),
                             !.listed = [id \in DOMAIN loaded |-> id \notin tokensToRemove]]
     /\ UNCHANGED <<kvOpen, kvListFault, oauthStates, kvStates, lockAcquired, advances, pc, op, sid,
                    tmp, issued, terminal>>
     /\ UNCHANGED qvars

\* handleDeleteToken
handleDeleteToken(tokenId) ==
  /\ IF tokenId = <<>>
     THEN /\ result' = TokenResult("delete", "missing")
          /\ UNCHANGED <<tokenStore, kvTokens>>
     ELSE LET loaded == loadTokensFromKv(tokenStore)
          IN IF ~Has(loaded, tokenId)
             THEN /\ tokenStore' = loaded
                  /\ result' = [TokenResult("delete", "notfound") EXCEPT !.id = tokenId]
                  /\ UNCHANGED kvTokens
             ELSE /\ tokenStore' = MapDelete(loaded, tokenId)
                  /\ kvTokens' = KvDeleteAll(kvTokens, {tokenId})
                  /\ result' = [TokenResult("delete", "ok") EXCEPT !.id = tokenId]
  /\ UNCHANGED <<kvOpen, kvListFault, oauthStates, kvStates, lockAcquired, advances, pc, op, sid, tmp,
                 issued, terminal>>
  /\ UNCHANGED qvars

\* deletedCount of handleDeleteAllTokens
deletedCount(ts, kvm) == Cardinality(DOMAIN ts)

\* handleDeleteAllTokens
handleDeleteAllTokens ==
  /\ tokenStore' = <<>>
  /\ kvTokens' = KvDeleteAll(kvTokens, DOMAIN kvTokens)
  /\ result' = [TokenResult("delete-all", "ok") EXCEPT
                  !.count = deletedCount(tokenStore, kvTokens)]
  /\ UNCHANGED <<kvOpen, kvListFault, oauthStates, kvStates, lockAcquired, advances, pc, op, sid, tmp,
                 issued, terminal>>
  /\ UNCHANGED qvars

\* Array.from(tokenStore.entries()): the ids of the pool in the order the Map holds
\* them (an order fixed per pool; the shuffle that follows makes every order possible)
EntriesOf(ts) ==
  CHOOSE q \in [1..Cardinality(DOMAIN ts) -> DOMAIN ts] :
    \A i, j \in 1..Cardinality(DOMAIN ts) : i # j => q[i] # q[j]

\* [a[i], a[j]] = [a[j], a[i]], positions counted from 0
Swap(a, i, j) ==
  [k \in 1..Len(a) |-> IF k = i + 1 THEN a[j + 1] ELSE IF k = j + 1 THEN a[i + 1] ELSE a[k]]

\* Math.random() returns u / RandomGrain for a u in Random
RandomGrain == 3
Random == 0..(RandomGrain - 1)
\* Math.floor(Math.random() * n)
AlwaysFirst(u, n) == 0
randomIndex(u, n) == (u * n) \div RandomGrain

\* the loop `for (i = length - 1; i > 0; i--)` from position i down, us[i] being the
\* value Math.random() takes at position i
RECURSIVE ShuffleFrom(_, _, _)
ShuffleFrom(a, us, i) ==
  IF i <= 0 THEN a ELSE ShuffleFrom(Swap(a, i, randomIndex(us[i], i + 1)), us, i - 1)
Shuffle(a, us) == ShuffleFrom(a, us, Len(a) - 1)

\* the values Math.random() can take in the shuffle of n entries
Draws(n) == [1..(n - 1) -> Random]

\* the subsequence of the ids of a that are in S
KeepAll(a, S) == a
RECURSIVE Keep(_, _)
Keep(a, S) ==
  IF a = <<>> THEN <<>>
  ELSE IF Head(a) \in S THEN <<Head(a)>> \o Keep(Tail(a), S) ELSE Keep(Tail(a), S)

\* getValidToken: the token endpoint answering f[id] for record id, Math.random()
\* returning us in the shuffle and u in the final pick
getValidToken(f, us, u) ==
  LET loaded == loadTokensFromKv(tokenStore)
      tokenEntries == Shuffle(EntriesOf(loaded), us)
      tried == Attempted(loaded, FALSE, DateNow)
      rejectedIds == FailedIds(loaded, f, FALSE, DateNow)
      after == Refreshed(loaded, f, FALSE, DateNow)
      validTokens == Keep(tokenEntries, DOMAIN loaded \ rejectedIds)
      randomPick == randomIndex(u, Len(validTokens))
  IN /\ IF DOMAIN loaded = {}
        THEN /\ tokenStore' = loaded
             /\ result' = TokenResult("select", "null")
             /\ UNCHANGED kvTokens
        ELSE /\ tokenStore' = after
             /\ kvTokens' = KvSaveAll(kvTokens, after, tried \ rejectedIds)
             /\ IF Len(validTokens) > 0
                THEN /\ result' = [TokenResult("select", "ok") EXCEPT
                                     !.calls = tried, !.answers = f,
                                     !.id = validTokens[randomPick + 1],
                                     !.token = after[validTokens[randomPick + 1]]]
                ELSE /\ result' = [TokenResult("select", "null") EXCEPT
                                     !.calls = tried, !.answers = f]
     /\ UNCHANGED <<kvOpen, kvListFault, oauthStates, kvStates, lockAcquired, advances, pc, op, sid,
                    tmp, issued, terminal>>
     /\ UNCHANGED qvars

\* the steps by which the clock is seen to advance between two requests
TokenDeltas == {30}

\* d minutes pass
TokenElapse(d) ==
  /\ tokenStore' = [i \in DOMAIN tokenStore |-> AgeToken(tokenStore[i], d)]
  /\ kvTokens' = [i \in DOMAIN kvTokens |-> AgeToken(kvTokens[i], d)]
  /\ \/ tokenStore' # tokenStore
     \/ kvTokens' # kvTokens
  /\ result' = TokenResult("none", "none")
  /\ UNCHANGED <<kvOpen, kvListFault, oauthStates, kvStates, lockAcquired, advances, pc, op, sid, tmp,
                 issued, terminal>>
  /\ UNCHANGED qvars

\* the answers of the token endpoint to the refreshes one request makes: one for
\* every record it attempts to refresh
AnswersTo(ts, forced) == [Attempted(loadTokensFromKv(ts), forced, DateNow) -> RefreshOutcomes]

UploadStep == \E b \in UploadBodies : handleUploadToken(b)
StatusStep == \E f \in AnswersTo(tokenStore, FALSE) : handleTokenStatus(f)
RefreshSingleStep == \E id \in TokenIds, o \in RefreshOutcomes : handleRefreshSingleToken(id, o)
RefreshAllStep == \E f \in AnswersTo(tokenStore, TRUE) : handleRefreshToken(f)
DeleteStep == \E id \in TokenIds : handleDeleteToken(id)
SelectStep ==
  \E f \in AnswersTo(tokenStore, FALSE) :
    \E us \in Draws(Cardinality(DOMAIN loadTokensFromKv(tokenStore))), u \in Random :
      getValidToken(f, us, u)
TokenElapseStep == \E d \in TokenDeltas : TokenElapse(d)

\* a record an earlier run of the server left in the durable store
LeftToken == AgeToken(UploadedTokenData([access_token |-> "a3", refresh_token |-> RT_C,
                                         expires_at |-> 0], DateNow), 1)

InitTokens ==
  /\ requestQueue = <<>>
  /\ apiKeys = <<>>
  /\ currentKeyIndex = 0
  /\ inflight = {}
  /\ responses = [r \in Requests |-> <<>>]
  /\ nextReq = 1
  /\ ticks = 0
  /\ dispatched = <<>>
  /\ waited = [r \in Requests |-> 0]
  /\ ahead = [r \in Requests |-> -1]
  /\ failed = {}
  /\ kvOpen \in BOOLEAN
  /\ advances = 0
  /\ oauthStates = <<>>
  /\ kvStates = <<>>
  /\ issued = {}
  /\ tokenStore = <<>>
  \* the durable store may hold a record an earlier run of the server left behind
  /\ \/ kvTokens = <<>>
     \/ /\ kvOpen
        /\ kvTokens = MapSet(<<>>, getTokenId(RT_C), LeftToken)
  /\ kvListFault = NoFault
  /\ lockAcquired = FALSE
  /\ pc = [p \in Procs |-> "idle"]
  /\ op = [p \in Procs |-> "none"]
  /\ sid = [p \in Procs |-> 0]
  /\ tmp = [p \in Procs |-> NoTmp]
  /\ result = TokenResult("none", "none")
  /\ terminal = [s \in 1..MaxSessions |-> <<>>]

NextTokens ==
  \/ UploadStep
  \/ StatusStep
  \/ RefreshSingleStep
  \/ RefreshAllStep
  \/ DeleteStep
  \/ handleDeleteAllTokens
  \/ SelectStep
  \/ TokenElapseStep

SpecTokens == InitTokens /\ [][NextTokens]_vars

\* --- selection over pools of up to three credentials ------------------------
\* a pool as uploads leave it: per id no record, a record uploaded just now, or one
\* uploaded half an hour ago (both expire an hour after the upload)
PoolShapes == [PoolIds -> {"none", "new", "older"}]
PoolRecord(id, shape) ==
  LET rt == CHOOSE t \in {RT_A, RT_C, RT_D} : getTokenId(t) = id
      uploaded == UploadedTokenData([access_token |-> "a1", refresh_token |-> rt,
                                     expires_at |-> 0], DateNow)
  IN IF shape = "new" THEN uploaded
     ELSE [uploaded EXCEPT !.expires_at = 30, !.uploaded_at = -1]
PoolOf(shapes) ==
  [id \in {i \in PoolIds : shapes[i] # "none"} |-> PoolRecord(id, shapes[id])]

InitSelect ==
  /\ requestQueue = <<>>
  /\ apiKeys = <<>>
  /\ currentKeyIndex = 0
  /\ inflight = {}
  /\ responses = [r \in Requests |-> <<>>]
  /\ nextReq = 1
  /\ ticks = 0
  /\ dispatched = <<>>
  /\ waited = [r \in Requests |-> 0]
  /\ ahead = [r \in Requests |-> -1]
  /\ failed = {}
  /\ kvOpen \in BOOLEAN
  /\ advances = 0
  /\ oauthStates = <<>>
  /\ kvStates = <<>>
  /\ issued = {}
  /\ \E shapes \in PoolShapes :
       /\ tokenStore = PoolOf(shapes)
       /\ kvTokens = IF kvOpen THEN PoolOf(shapes) ELSE <<>>
  /\ kvListFault = NoFault
  /\ lockAcquired = FALSE
  /\ pc = [p \in Procs |-> "idle"]
  /\ op = [p \in Procs |-> "none"]
  /\ sid = [p \in Procs |-> 0]
  /\ tmp = [p \in Procs |-> NoTmp]
  /\ result = TokenResult("none", "none")
  /\ terminal = [s \in 1..MaxSessions |-> <<>>]

\* the token endpoint rejects every grant: an expired record stays as it is
Rejecting(ts) ==
  [id \in Attempted(loadTokensFromKv(ts), FALSE, DateNow) |->
     [kind |-> "rejected", access_token |-> "", refresh_token |-> <<>>, expires_in |-> 0]]

SelectRejectedStep ==
  \E us \in Draws(Cardinality(DOMAIN loadTokensFromKv(tokenStore))), u \in Random :
    getValidToken(Rejecting(tokenStore), us, u)

NextSelect ==
  \/ SelectRejectedStep
  \/ TokenElapseStep

SpecSelect == InitSelect /\ [][NextSelect]_vars

\* --- reads of the durable store that fail ------------------------------------
\* how a listing of the token entries can go
ListFaults == {NoFault, 0, 1}

\* the durable store starts, or stops, failing its reads of the token entries
ListFaultStep ==
  /\ \E k \in ListFaults \ {kvListFault} : kvListFault' = k
  /\ result' = TokenResult("none", "none")
  /\ UNCHANGED <<kvOpen, oauthStates, kvStates, tokenStore, kvTokens, lockAcquired, advances,
                 pc, op, sid, tmp, issued, terminal>>
  /\ UNCHANGED qvars

NextListFault ==
  \/ ListFaultStep
  \/ StatusStep
  \/ SelectStep
  \/ RefreshSingleStep
  \/ DeleteStep

SpecListFault == InitSelect /\ [][NextListFault]_vars

\* --- the gateway without a durable store --------------------------------------
\* Deno.openKv() failed at start-up: kv stays null.  Sessions and tokens together,
\* in runs short against the clock.
InitMemoryOnly == InitOAuth /\ kvOpen = FALSE

\* the upload of these runs
MemoryUploadStep ==
  handleUploadToken([access_token |-> "a1", refresh_token |-> RT_A, expires_at |-> 0])

NextMemoryOnly ==
  \/ NextOAuthPair
  \/ MemoryUploadStep
  \/ StatusStep
  \/ SelectStep

SpecMemoryOnly == InitMemoryOnly /\ [][NextMemoryOnly]_vars

\* --- a refresh in flight while other requests are served ---------------------
\* handleRefreshSingleToken, from the request to the fetch of forceRefreshToken: the
\* locals tokenId and token are kept in tmp[p].token
handleRefreshSingleToken_called(p, tokenId) ==
  /\ p \in Handlers
  /\ pc[p] = "idle"
  /\ \A q \in Handlers : q < p => pc[q] # "idle"
  /\ LET loaded == loadTokensFromKv(tokenStore)
     IN /\ tokenStore' = loaded
        /\ IF ~Has(loaded, tokenId)
           THEN /\ result' = [TokenResult("refresh-single", "notfound") EXCEPT !.id = tokenId]
                /\ UNCHANGED <<pc, tmp>>
           ELSE /\ result' = TokenResult("none", "none")
                /\ pc' = [pc EXCEPT ![p] = "refresh_fetch"]
                /\ tmp' = [tmp EXCEPT ![p].token = [id |-> tokenId, token |-> loaded[tokenId]]]
  /\ UNCHANGED <<kvOpen, kvListFault, oauthStates, kvStates, kvTokens, lockAcquired, advances,
                 op, sid, issued, terminal>>
  /\ UNCHANGED qvars

\* handleRefreshSingleToken, from the answer o of the token endpoint to the response
handleRefreshSingleToken_fetched(p, o) ==
  /\ pc[p] = "refresh_fetch"
  /\ LET tokenId == tmp[p].token.id
         token == tmp[p].token.token
     IN IF RefreshFails(o)
        THEN /\ tokenStore' = IF Has(tokenStore, tokenId) THEN MapDelete(tokenStore, tokenId)
                              ELSE tokenStore
             /\ kvTokens' = KvDeleteAll(kvTokens, {tokenId})
             /\ result' = [TokenResult("refresh-single", "failed") EXCEPT
                             !.id = tokenId, !.calls = {tokenId},
                             !.answers = MapSet(<<>>, tokenId, o)]
        ELSE LET updated == updatedTokenData(token, o, DateNow)
             IN /\ tokenStore' = MapSet(tokenStore, tokenId, updated)
                /\ kvTokens' = KvSet(kvTokens, tokenId, updated)
                /\ result' = [TokenResult("refresh-single", "ok") EXCEPT
                                !.id = tokenId, !.calls = {tokenId}, !.token = updated,
                                !.answers = MapSet(<<>>, tokenId, o)]
  /\ pc' = [pc EXCEPT ![p] = "idle"]
  /\ tmp' = [tmp EXCEPT ![p] = NoTmp]
  /\ UNCHANGED <<kvOpen, kvListFault, oauthStates, kvStates, lockAcquired, advances, op, sid,
                 issued, terminal>>
  /\ UNCHANGED qvars

RefreshCalledStep ==
  \E p \in Handlers, id \in PoolIds : handleRefreshSingleToken_called(p, id)
RefreshFetchedStep ==
  \E p \in Handlers, o \in RefreshOutcomes : handleRefreshSingleToken_fetched(p, o)

NextTokenRace ==
  \/ RefreshCalledStep
  \/ RefreshFetchedStep
  \/ DeleteStep
  \/ handleDeleteAllTokens
  \/ MemoryUploadStep

SpecTokenRace == InitTokens /\ [][NextTokenRace]_vars

\* ---------------------------------------------------------------------
\* Properties of the dispatch queue
\* ---------------------------------------------------------------------
Enqueued(r) == ahead[r] >= 0
InQueue(r) == \E i \in 1..Len(requestQueue) : requestQueue[i].resolve = r
InFlight(r) == \E f \in inflight : f.resolve = r
Resolved(r) == Len(responses[r]) >= 1
TimesDispatched(r) == Cardinality({i \in 1..Len(dispatched) : dispatched[i].resolve = r})
TimesQueued(r) == Cardinality({i \in 1..Len(requestQueue) : requestQueue[i].resolve = r})
Count(b) == IF b THEN 1 ELSE 0
ProxyError == [status |-> 502, body |-> "Proxy error", cors |-> TRUE]

\* C1 (safety part): an enqueued item is in exactly one place: queued once, or in
\* flight, or resolved; it is dispatched at most once and answered at most once, and
\* an answer it got is the upstream response or the proxied 502.
ItemAccounting ==
  \A r \in Requests :
    /\ Len(responses[r]) <= 1
    /\ TimesDispatched(r) <= 1
    /\ Enqueued(r) =>
         /\ TimesQueued(r) + Count(InFlight(r)) + Count(Resolved(r)) = 1
         /\ TimesDispatched(r) = Count(InFlight(r)) + Count(Resolved(r))
         /\ Resolved(r) => responses[r][1].body \in {"upstream", "Proxy error"}

\* C1: every item appended by enqueue is dequeued by exactly one drain and its
\* resolver is invoked exactly once; with the ticker firing and every upstream call
\* settling, every enqueued item is eventually resolved (none dropped, none resolved
\* twice).
C1_EveryItemResolvedExactlyOnce ==
  /\ []ItemAccounting
  /\ \A r \in Requests : Enqueued(r) ~> (Len(responses[r]) = 1 /\ ~InQueue(r) /\ ~InFlight(r))

C1_Witness ==
  /\ \A r \in Requests : Enqueued(r) /\ Len(responses[r]) = 1 /\ TimesDispatched(r) = 1
  /\ \E r \in Requests : responses[r][1].status = 502
  /\ \E r \in Requests : responses[r][1].status = 200

\* C2: with M >= 1 credentials the n-th dispatched item (n = 0, 1, ...) is forwarded
\* with credential index n mod M, and the rotation index stays within 0..M-1.
C2_RoundRobin ==
  Len(apiKeys) >= 1 =>
    /\ currentKeyIndex \in 0..(Len(apiKeys) - 1)
    /\ currentKeyIndex = Len(dispatched) % Len(apiKeys)
    /\ \A n \in 1..Len(dispatched) : dispatched[n].keyIndex = (n - 1) % Len(apiKeys)
    /\ \A f \in inflight : \E n \in 1..Len(dispatched) :
         /\ dispatched[n].resolve = f.resolve
         /\ f.apiKey = apiKeys[((n - 1) % Len(apiKeys)) + 1]

C2_Witness ==
  /\ Len(apiKeys) = 2
  /\ Len(dispatched) = 3
  /\ dispatched[3].keyIndex = 0
  /\ currentKeyIndex = 1

\* C3 as stated: K ticker firings after a queue held K items, every one of them has
\* been resolved exactly once (for each item: once it has waited for as many ticks as
\* its position in the queue, it is resolved).
C3_ResolvedAfterKTicks ==
  \A r \in Requests :
    (Enqueued(r) /\ waited[r] >= ahead[r] + 1) => Len(responses[r]) = 1

\* C3 amended: K ticker firings after a queue held K items, every one of them has left
\* the queue and had its upstream call started exactly once; it is resolved exactly
\* once when that call settles, which may be after the K ticks.
C3_DispatchedAfterKTicks ==
  \A r \in Requests :
    (Enqueued(r) /\ waited[r] >= ahead[r] + 1) =>
      /\ ~InQueue(r)
      /\ TimesDispatched(r) = 1
      /\ Len(responses[r]) <= 1
      /\ ~InFlight(r) => Len(responses[r]) = 1

C3_Witness ==
  /\ Len(apiKeys) = 1
  /\ \A r \in Requests : ahead[r] = r - 1 /\ waited[r] = 3
  /\ ticks = 3
  /\ Len(dispatched) = 3
  /\ \A n \in 1..3 : dispatched[n].keyIndex = 0
  /\ \E r \in Requests : InFlight(r)

\* C4: a ticker firing removes at most one item from the queue and starts at most one
\* upstream call, whatever the pool size and the queue depth; after T ticks at most T
\* upstream calls have been started.
C4_OneCallPerTick ==
  /\ [](Len(dispatched) <= ticks)
  /\ [][/\ Len(requestQueue') >= Len(requestQueue) - 1
        /\ Len(dispatched') <= Len(dispatched) + 1
        /\ Cardinality(inflight' \ inflight) <= 1]_vars

C4_Witness ==
  /\ Len(apiKeys) = 3
  /\ ticks = 1
  /\ Len(dispatched) = 1
  /\ Len(requestQueue) = 2

\* C5: when the upstream call of a dequeued item throws, the item's resolver is still
\* invoked, with the 502 response carrying the error; the item is not left unresolved
\* and is not put back in the queue.
C5_FailureResolvesWith502 ==
  \A r \in failed :
    /\ responses[r] = <<ProxyError>>
    /\ ~InQueue(r)
    /\ ~InFlight(r)

C5_Witness ==
  /\ failed # {}
  /\ \E r \in failed : responses[r] = <<ProxyError>>
  /\ \E r \in Requests \ failed : Resolved(r) /\ responses[r][1].status = 200
  /\ requestQueue # <<>>

\* C6 as stated: at most one upstream call is in flight at any time.
C6_AtMostOneInFlight == Cardinality(inflight) <= 1

\* C6 amended: the queue starts upstream calls one per ticker firing and does not wait
\* for a call to settle before the next firing starts another: calls of different
\* firings may be in flight together, never more of them than firings so far, each
\* for a different dequeued item that is not yet answered.
C6_InFlightBoundedByTicks ==
  /\ Cardinality(inflight) <= ticks
  /\ Cardinality(inflight) <= Len(dispatched)
  /\ \A f \in inflight : TimesDispatched(f.resolve) = 1 /\ ~Resolved(f.resolve)
  /\ \A f, g \in inflight : f.resolve = g.resolve => f = g

C6_Witness ==
  /\ Cardinality(inflight) = 2
  /\ ticks = 2

\* ---------------------------------------------------------------------
\* Properties of the OAuth device-flow sessions
\* ---------------------------------------------------------------------
\* the handler or the timer callback is between acquireLock and releaseLock
InBody(p) == pc[p] \notin {"idle", "acquire"}
Gone(s) == ~Has(oauthStates, s) /\ ~Has(kvStates, s)
UnknownSession == "unknown"

\* C7 (state part): a session reaches at most one terminal outcome; once it has, it is
\* in neither the in-memory map nor the durable store, and a poll that names it is
\* never past the look-up that fails and has made no upstream call.
TerminalIsFinal ==
  \A s \in StateIds :
    /\ Len(terminal[s]) <= 1
    /\ terminal[s] # <<>> =>
         /\ Gone(s)
         /\ \A p \in Handlers :
              (op[p] = "poll" /\ sid[p] = s) => (pc[p] = "poll_kvload" /\ tmp[p].calls = 0)
         /\ (result.op = "poll" /\ result.sid = s
               /\ result.status \notin {"success", "expired", "failure"}) =>
              (result.status = UnknownSession /\ result.calls = 0)

\* C7 (step part): a step of a cancel that names a session which has reached a terminal
\* outcome changes neither map, nor the token pool, nor the outcome.
CancelAfterTerminalChangesNothing ==
  \A s \in StateIds :
    (/\ terminal[s] # <<>>
     /\ \E p \in Handlers :
          /\ op[p] = "cancel"
          /\ pc'[p] # pc[p]
          /\ sid[p] = s \/ sid'[p] = s)
    => UNCHANGED <<oauthStates, kvStates, tokenStore, kvTokens, terminal>>

\* C7: for any session at most one of SUCCESS, EXPIRED, CANCELLED, FAILED is ever
\* reached; once one is reached the session is absent from the in-memory map and the
\* durable store, every later poll for its stateId returns the unknown-session result
\* without an upstream call, and every later cancel changes nothing.
C7_TerminalOutcomeIsFinal ==
  /\ []TerminalIsFinal
  /\ [][CancelAfterTerminalChangesNothing]_vars

C7_Witness ==
  /\ kvOpen
  /\ terminal[1] = <<"SUCCESS">>
  /\ result.op = "poll"
  /\ result.sid = 1
  /\ result.status = UnknownSession
  /\ result.calls = 0

\* C8 (step part): a step that changes the in-memory session map (other than the
\* passing of time, which only re-bases the timestamps) is a step of a handler that is
\* in its body, with the lock held.
MutationUnderLock ==
  (oauthStates' # oauthStates /\ advances' = advances) =>
    /\ lockAcquired
    /\ \E p \in Procs : InBody(p) /\ pc'[p] # pc[p]

\* C8: at any time at most one of the init, poll, cancel and cleanup bodies is between
\* acquireLock and releaseLock, whatever the interleaving of the handlers at their
\* suspension points, and every mutation of the in-memory session map happens while
\* the lock is held by the handler that makes it.
C8_SessionLock ==
  /\ [](/\ Cardinality({p \in Procs : InBody(p)}) <= 1
        /\ lockAcquired <=> \E p \in Procs : InBody(p))
  /\ [][MutationUnderLock]_vars

C8_Witness ==
  /\ lockAcquired
  /\ pc[1] = "poll_fetch"
  /\ pc[2] = "acquire"
  /\ op[2] = "cancel"
  /\ pc[Timer] = "acquire"

\* the id of the pool entry of a refresh token: its first eight characters
FirstEight(rt) == [i \in 1..(IF Len(rt) < 8 THEN Len(rt) ELSE 8) |-> rt[i]]
InPool(token) ==
  LET id == FirstEight(token.refresh_token)
  IN /\ Has(tokenStore, id)
     /\ tokenStore[id].refresh_token = token.refresh_token
     /\ tokenStore[id].access_token = token.access_token
InDurablePool(token) ==
  LET id == FirstEight(token.refresh_token)
  IN kvOpen =>
       /\ Has(kvTokens, id)
       /\ kvTokens[id].refresh_token = token.refresh_token

\* C9: when the one upstream token poll of poll(stateId) returns an issued token, a
\* record built from it is in the token pool, in memory and (when there is one) in the
\* durable store, under the id derived from its refresh token; the session is evicted
\* from memory and the durable store; the result is success with that token id; and
\* from the call's return on there is no state in which the session is gone from
\* memory while the token is not in the pool.
C9_TokenStoredThenSessionEvicted ==
  /\ \A p \in Handlers :
       (op[p] = "poll" /\ tmp[p].status = "success") =>
         /\ tmp[p].calls = 1
         /\ InPool(tmp[p].token)
         /\ ~Has(oauthStates, sid[p]) => InDurablePool(tmp[p].token)
  /\ (result.op = "poll" /\ result.upstream = <<"t", "o", "k", "e", "n">>) =>
       /\ result.status = "success"
       /\ result.calls = 1
       /\ Gone(result.sid)
       /\ Has(tokenStore, result.tokenId)
       /\ result.tokenId = FirstEight(tokenStore[result.tokenId].refresh_token)
       /\ InDurablePool(tokenStore[result.tokenId])
       /\ terminal[result.sid] = <<"SUCCESS">>

C9_Witness ==
  /\ kvOpen
  /\ result.op = "poll"
  /\ result.status = "success"
  /\ result.tokenId = <<"r", "e", "f", "r", "e", "s", "h", "t">>
  /\ Has(kvTokens, result.tokenId)
  /\ Gone(result.sid)

\* the errors of the token endpoint other than authorization_pending and slow_down
OtherErrors == {S_access_denied, S_expired_token}

\* C10: when the upstream token poll of poll(stateId) answers with an error other than
\* authorization_pending and slow_down, the session is evicted from memory and the
\* durable store and the result is failure, never pending.
C10_OtherErrorEvictsAndFails ==
  (result.op = "poll" /\ result.calls = 1 /\ result.upstream \in OtherErrors) =>
    /\ result.status = "failure"
    /\ Gone(result.sid)

\* the handler p leaves the suspension point `label` in this step
Leaves(p, label) == pc[p] = label /\ pc'[p] # label

\* C11 (step part): the expiry check of a poll on a session that is more than the 60 s
\* grace past expiresAt deletes it from memory and goes on to delete it from the
\* durable store, with no upstream call; the step that follows returns Expired with
\* the session in neither place.
ExpiredPollEvicts ==
  \A p \in Handlers :
    /\ (Leaves(p, "poll_usage_save") /\ oauthStates[sid[p]].expiresAt + 1 < 0) =>
         /\ pc'[p] = "poll_del"
         /\ tmp'[p].status = "expired"
         /\ tmp'[p].calls = 0
         /\ ~Has(oauthStates', sid[p])
    /\ (Leaves(p, "poll_del") /\ tmp[p].status = "expired") =>
         /\ result'.status = "expired"
         /\ result'.calls = 0
         /\ ~Has(oauthStates', sid[p])
         /\ ~Has(kvStates', sid[p])

\* C11: a poll on a session with now > expiresAt + 60 s evicts the session from memory
\* and the durable store, returns the Expired failure, and issues no upstream call.
C11_ExpiredPollEvictsWithoutCall ==
  /\ [](/\ \A p \in Handlers :
             tmp[p].status = "expired" =>
               pc[p] = "poll_del" /\ tmp[p].calls = 0 /\ ~Has(oauthStates, sid[p])
        /\ result.status = "expired" =>
             /\ result.op = "poll"
             /\ result.calls = 0
             /\ Gone(result.sid)
             /\ terminal[result.sid] = <<"EXPIRED">>)
  /\ [][ExpiredPollEvicts]_vars

C11_Witness ==
  /\ kvOpen
  /\ result.op = "poll"
  /\ result.status = "expired"
  /\ result.calls = 0
  /\ Gone(result.sid)

\* C12 (step part): the expiry check of a poll on a session with
\* expiresAt - 60 s < now <= expiresAt + 60 s returns pending with the warning, makes
\* no upstream call and keeps the session (memory unchanged, the durable copy equal to
\* it); with now <= expiresAt - 60 s it goes on to the upstream call, the handler's
\* first.
WarningWindow ==
  \A p \in Handlers :
    Leaves(p, "poll_usage_save") =>
      LET s == sid[p]
          expiresAt == oauthStates[s].expiresAt
      IN /\ (expiresAt - 1 < 0 /\ 0 <= expiresAt + 1) =>
              /\ result'.op = "poll"
              /\ result'.sid = s
              /\ result'.status = "warning"
              /\ result'.calls = 0
              /\ pc'[p] = "idle"
              /\ oauthStates' = oauthStates
              /\ kvOpen => (Has(kvStates', s) /\ kvStates'[s] = oauthStates[s])
         /\ (0 <= expiresAt - 1) =>
              /\ pc'[p] = "poll_fetch"
              /\ tmp[p].calls = 0
              /\ tmp'[p].calls = 1
              /\ oauthStates' = oauthStates

\* C12: a poll on a session within 60 s of its expiry returns pending with a warning,
\* issues no upstream call and keeps the session; a poll on any other session that
\* exists and is not expired issues exactly one upstream call.
C12_WarningWindowThenOneCall ==
  /\ [](/\ \A p \in Handlers :
             /\ tmp[p].calls <= 1
             /\ pc[p] = "poll_fetch" => tmp[p].calls = 1
             /\ pc[p] \in {"poll_json", "poll_kvload", "poll_usage_save"} => tmp[p].calls = 0
        /\ result.op = "poll" =>
             /\ result.calls = 1 <=> result.status \in {"pending", "success", "failure"}
             /\ result.calls = 0 <=>
                  result.status \in {"warning", "expired", "missing", UnknownSession}
             /\ result.status = "warning" => Has(oauthStates, result.sid))
  /\ [][WarningWindow]_vars

C12_Witness ==
  /\ kvOpen
  /\ result.op = "poll"
  /\ result.status = "warning"
  /\ result.calls = 0
  /\ Has(oauthStates, result.sid)
  /\ oauthStates[result.sid].expiresAt = -1
  /\ kvStates[result.sid] = oauthStates[result.sid]

\* the session maps and the token pool
Stores == <<oauthStates, kvStates, tokenStore, kvTokens>>

\* C13 (step part): while a poll looks up a stateId that is in neither map it changes
\* no session and no token, and its look-up in the durable store ends it with the
\* unknown-session result and no upstream call; the look-up of a stateId that only the
\* durable store holds puts that session into memory, with lastUsedAt refreshed and
\* the other sessions as they were, and the poll goes on to its expiry checks.
UnknownOrLoaded ==
  \A p \in Handlers :
    /\ (/\ op[p] = "poll"
        /\ pc'[p] # pc[p]
        /\ pc[p] \in {"poll_json", "poll_kvload"}
        /\ \E s \in StateIds : (sid[p] = s \/ sid'[p] = s) /\ Gone(s)) =>
         UNCHANGED Stores
    /\ Leaves(p, "poll_kvload") =>
         LET s == sid[p]
         IN IF kvOpen /\ Has(kvStates, s)
            THEN /\ pc'[p] = "poll_usage_save"
                 /\ DOMAIN oauthStates' = DOMAIN oauthStates \cup {s}
                 /\ oauthStates'[s] = [kvStates[s] EXCEPT !.lastUsedAt = 0]
                 /\ \A x \in DOMAIN oauthStates : oauthStates'[x] = oauthStates[x]
                 /\ UNCHANGED <<kvStates, tokenStore, kvTokens>>
            ELSE /\ result'.op = "poll"
                 /\ result'.sid = s
                 /\ result'.status = UnknownSession
                 /\ result'.calls = 0
                 /\ UNCHANGED Stores

\* C13: a poll for a stateId found neither in memory nor in the durable store fails
\* with the unknown-session result, issues no upstream call and leaves every session
\* and token as it was; a session only the durable store holds is loaded into memory
\* and polled as any other.
C13_UnknownFailsDurableLoads ==
  /\ [](/\ \A p \in Handlers :
             /\ pc[p] = "poll_kvload" => (~Has(oauthStates, sid[p]) /\ tmp[p].calls = 0)
             /\ pc[p] \in {"poll_usage_save", "poll_fetch"} => Has(oauthStates, sid[p])
        /\ result.status = UnknownSession =>
             (result.op = "poll" /\ result.calls = 0 /\ Gone(result.sid)))
  /\ [][UnknownOrLoaded]_vars

C13_Witness ==
  /\ result.op = "poll"
  /\ result.sid = 2
  /\ result.status = UnknownSession
  /\ result.calls = 0
  /\ Has(oauthStates, 1)
  /\ oauthStates[1].createdAt = -1
  /\ oauthStates[1].lastUsedAt = 0
  /\ tokenStore # <<>>

\* C14 (step part): when the upstream call of a poll settles with slow_down the poll
\* returns pending, the session stays in memory and in the durable store, and its
\* pollInterval becomes min(1.5 x old, 10 s) (in quarter seconds: twice the new value
\* is min(3 x old, 80)); no other field of it changes.
SlowDownStep ==
  \A p \in Handlers :
    (Leaves(p, "poll_fetch") /\ result'.upstream = S_slow_down) =>
      LET s == sid[p]
          old == oauthStates[s].pollInterval
      IN /\ result'.op = "poll"
         /\ result'.sid = s
         /\ result'.status = "pending"
         /\ result'.calls = 1
         /\ Has(oauthStates', s)
         /\ 2 * oauthStates'[s].pollInterval = Min(3 * old, 2 * 10 * 4)
         /\ oauthStates' = [oauthStates EXCEPT ![s].pollInterval = oauthStates'[s].pollInterval]
         /\ UNCHANGED <<kvStates, tokenStore, kvTokens, terminal>>

\* C14: when the upstream answers slow_down the result of the poll is pending, the
\* session is kept, and its pollInterval becomes min(old pollInterval x 1.5, 10)
\* seconds.
C14_SlowDownRaisesInterval ==
  /\ [](result.upstream = S_slow_down =>
          /\ result.status = "pending"
          /\ Has(oauthStates, result.sid)
          /\ oauthStates[result.sid].pollInterval \in 9..(10 * 4)
          /\ terminal[result.sid] = <<>>)
  /\ [][SlowDownStep]_vars

C14_Witness ==
  /\ result.op = "poll"
  /\ result.upstream = S_slow_down
  /\ result.status = "pending"
  /\ oauthStates[result.sid].pollInterval = 30
  /\ kvOpen
  /\ kvStates[result.sid].pollInterval = 5 * 4

\* C15 (step part): the look-up of a poll that finds the session (in memory, or in
\* the durable store) sets its lastUsedAt to the present in memory and nothing else;
\* the step after it writes the in-memory session to the durable store, leaving the
\* other stored sessions and the tokens alone, and only then evaluates the expiry;
\* an upstream answer authorization_pending ends the poll with pending and changes
\* no session and no token.
UsageRefreshedFirst ==
  \A p \in Handlers :
    /\ (Leaves(p, "poll_json") /\ sid'[p] # 0 /\ Has(oauthStates, sid'[p])) =>
         /\ pc'[p] = "poll_usage_save"
         /\ oauthStates' = [oauthStates EXCEPT ![sid'[p]].lastUsedAt = 0]
         /\ UNCHANGED <<kvStates, tokenStore, kvTokens>>
    /\ (Leaves(p, "poll_kvload") /\ pc'[p] # "idle") =>
         /\ pc'[p] = "poll_usage_save"
         /\ oauthStates'[sid[p]] = [kvStates[sid[p]] EXCEPT !.lastUsedAt = 0]
         /\ UNCHANGED <<kvStates, tokenStore, kvTokens>>
    /\ Leaves(p, "poll_usage_save") =>
         /\ kvOpen => (Has(kvStates', sid[p]) /\ kvStates'[sid[p]] = oauthStates[sid[p]])
         /\ ~kvOpen => kvStates' = kvStates
         /\ \A x \in DOMAIN kvStates \ {sid[p]} : Has(kvStates', x) /\ kvStates'[x] = kvStates[x]
         /\ \A x \in DOMAIN oauthStates \ {sid[p]} :
              Has(oauthStates', x) /\ oauthStates'[x] = oauthStates[x]
         /\ UNCHANGED <<tokenStore, kvTokens>>
    /\ (Leaves(p, "poll_fetch") /\ result'.upstream = S_authorization_pending) =>
         /\ result'.op = "poll"
         /\ result'.sid = sid[p]
         /\ result'.status = "pending"
         /\ UNCHANGED Stores

SameBut(m1, m2, k) ==
  /\ DOMAIN m2 = DOMAIN m1 \ {k}
  /\ \A x \in DOMAIN m2 : m2[x] = m1[x]

\* C16 (step part): the first step of a cancel removes the named session from memory
\* and touches nothing else; its second step removes it from the durable store,
\* touches nothing else and answers success; a cancel of a stateId that is in neither
\* map changes nothing at all.
CancelStep ==
  \A p \in Handlers :
    /\ (Leaves(p, "cancel_json") /\ sid'[p] # 0) =>
         /\ SameBut(oauthStates, oauthStates', sid'[p])
         /\ UNCHANGED <<kvStates, tokenStore, kvTokens>>
         /\ Gone(sid'[p]) => UNCHANGED Stores
    /\ (Leaves(p, "cancel_json") /\ sid'[p] = 0) =>
         (UNCHANGED Stores /\ result'.status = "cancelled")
    /\ Leaves(p, "cancel_del") =>
         /\ SameBut(kvStates, kvStates', sid[p])
         /\ UNCHANGED <<oauthStates, tokenStore, kvTokens>>
         /\ Gone(sid[p]) => UNCHANGED Stores
         /\ result'.op = "cancel"
         /\ result'.sid = sid[p]
         /\ result'.status = "cancelled"

\* C16: cancel is idempotent: after it the session is in neither the in-memory map nor
\* the durable store, whatever state it was in; a second cancel, or the cancel of a
\* stateId that never existed, succeeds and leaves everything as the first left it;
\* a cancel never modifies another session or a token record.
C16_CancelIdempotent ==
  /\ [](/\ result.op = "cancel" =>
             /\ result.status = "cancelled"
             /\ result.sid # 0 => Gone(result.sid)
        /\ \A p \in Handlers : pc[p] = "cancel_del" => ~Has(oauthStates, sid[p]))
  /\ [][CancelStep]_vars

C16_Witness ==
  /\ kvOpen
  /\ result.op = "cancel"
  /\ result.sid = 1
  /\ result.status = "cancelled"
  /\ terminal[1] = <<"SUCCESS">>
  /\ Has(oauthStates, 2)
  /\ Has(kvStates, 2)
  /\ tokenStore # <<>>

\* handler q, a cancel or a poll, is acting on session s after a cancel or a poll of
\* s (not poll after poll) returned while q was waiting for the lock: q acts second
ActsSecond(q, s) ==
  /\ s # 0
  /\ InBody(q)
  /\ op[q] \in {"poll", "cancel"}
  /\ tmp[q].overlapped # Null
  /\ tmp[q].overlapped[2] = s
  /\ tmp[q].overlapped[1] \in {"poll", "cancel"}
  /\ op[q] = "cancel" \/ tmp[q].overlapped[1] = "cancel"
  /\ sid[q] = s \/ (sid[q] = 0 /\ sid'[q] = s)

\* the first actor left the session in place: a poll that returned pending
FirstLeftSession(q) == tmp[q].overlapped[3] \in {"pending", "warning"}

\* when the second actor returns, the session is in neither map
BothDoneSessionGone ==
  \A q \in Handlers : \A s \in StateIds :
    (ActsSecond(q, s) /\ pc'[q] = "idle") =>
      (~Has(oauthStates', s) /\ ~Has(kvStates', s))

\* C17 as stated: for every interleaving of a cancel with a concurrent poll of the
\* same session, and of two cancels, the session is absent once both have completed
\* and whichever acts second changes nothing about the session.
C17_SecondActorIsNoOp ==
  /\ [][BothDoneSessionGone]_vars
  /\ [][\A q \in Handlers : \A s \in StateIds :
          (ActsSecond(q, s) /\ pc'[q] # pc[q]) =>
            (~Has(oauthStates', s) /\ ~Has(kvStates', s) /\ Gone(s))]_vars

\* C17 amended: the session is absent once both have completed.  The second actor is
\* a no-op on the session when the first was a cancel or a poll that ended the
\* session (a poll that acts after the cancel returns the unknown-session result with
\* no upstream call); when the poll that acted first returned pending, the session is
\* still there and the cancel that acts second is what evicts it.
C17_SecondActorFindsOrEvicts ==
  /\ [][BothDoneSessionGone]_vars
  /\ [][\A q \in Handlers : \A s \in StateIds :
          (ActsSecond(q, s) /\ pc'[q] # pc[q]) =>
            IF FirstLeftSession(q)
            THEN /\ op[q] = "cancel"
                 /\ pc[q] = "cancel_json" => (Has(oauthStates, s) /\ ~Has(oauthStates', s))
                 /\ pc[q] = "cancel_del" => (~Has(oauthStates', s) /\ ~Has(kvStates', s))
            ELSE /\ Gone(s)
                 /\ UNCHANGED Stores
                 /\ tmp'[q].calls = 0
                 /\ (op[q] = "poll" /\ pc'[q] = "idle") =>
                      (result'.status = UnknownSession /\ result'.calls = 0)]_vars

C17_Witness ==
  /\ kvOpen
  /\ pc[2] = "cancel_del"
  /\ sid[2] = 1
  /\ tmp[2].existed
  /\ tmp[2].overlapped = <<"poll", 1, "pending">>
  /\ ~Has(oauthStates, 1)
  /\ Has(kvStates, 1)

\* a session meets one of the three eviction conditions now: more than 60 s past
\* expiresAt, idle for more than 30 min, older than 60 min
Evictable(state) ==
  \/ state.expiresAt + GRACE < 0
  \/ state.lastUsedAt + IDLE_LIMIT < 0
  \/ state.createdAt + AGE_LIMIT < 0

\* map m2 is map m1 without its evictable sessions, the others as they were
Swept(m1, m2) ==
  /\ DOMAIN m2 = {s \in DOMAIN m1 : ~Evictable(m1[s])}
  /\ \A s \in DOMAIN m2 : m2[s] = m1[s]

\* C18 (step part): the pass over memory removes from memory, and from the durable
\* store, exactly the sessions whose in-memory record is evictable; the pass over the
\* durable store removes from it exactly the sessions whose stored record is
\* evictable and leaves memory alone; neither touches a token.
CleanupPass ==
  /\ Leaves(Timer, "clean_mem") =>
       /\ Swept(oauthStates, oauthStates')
       /\ kvOpen => /\ DOMAIN kvStates' =
                         DOMAIN kvStates \ {s \in DOMAIN oauthStates : Evictable(oauthStates[s])}
                    /\ \A s \in DOMAIN kvStates' : kvStates'[s] = kvStates[s]
       /\ ~kvOpen => kvStates' = kvStates
       /\ UNCHANGED <<tokenStore, kvTokens>>
  /\ Leaves(Timer, "clean_kv") =>
       /\ kvOpen => Swept(kvStates, kvStates')
       /\ ~kvOpen => kvStates' = kvStates
       /\ UNCHANGED <<oauthStates, tokenStore, kvTokens>>
       /\ result'.op = "cleanup"

\* C18: when a cleanup pass completes, no session in the in-memory map and none in the
\* durable store meets, at the time of the pass, any of the three eviction conditions
\* (now > expiresAt + 60 s, idle > 30 min, age > 60 min), and every session that meets
\* none of them is as it was, in both places.
C18_CleanupSweepsExactly ==
  /\ [](/\ result.op = "cleanup" =>
             /\ \A s \in DOMAIN oauthStates : ~Evictable(oauthStates[s])
             /\ \A s \in DOMAIN kvStates : ~Evictable(kvStates[s])
        /\ pc[Timer] = "clean_kv" =>
             /\ \A s \in DOMAIN oauthStates : ~Evictable(oauthStates[s])
             /\ \A s \in DOMAIN kvStates :
                  Evictable(kvStates[s]) => ~Has(oauthStates, s))
  /\ [][CleanupPass]_vars

C18_Witness ==
  /\ kvOpen
  /\ pc[Timer] = "clean_kv"
  /\ tmp[Timer].existed
  /\ Gone(1)
  /\ terminal[1] = <<"EXPIRED">>

\* C19 (step part): when the device-code request of an init is answered with a status
\* that is not 2xx, or with an `error` field, the init returns the failure, the lock
\* is free again, no state id is used up, and no session or token has changed.
FailedInit ==
  \A p \in Handlers :
    (Leaves(p, "init_fetch") /\ (result'.upstream # Null \/ tmp'[p].upstream # Null)) =>
      /\ pc'[p] = "idle"
      /\ result'.op = "init"
      /\ result'.status = "error"
      /\ result'.upstream \in {S_http_500, S_invalid_client}
      /\ ~lockAcquired'
      /\ issued' = issued
      /\ UNCHANGED Stores

\* C19: an init whose device-code request returns a non-2xx status or a body with an
\* error field fails with the authorization-request-failed result; no session is added
\* to the in-memory map or the durable store, the existing sessions are unchanged, and
\* the lock is released.
C19_FailedInitAddsNothing ==
  /\ [](/\ \A p \in Handlers : pc[p] = "init_save" => tmp[p].upstream = Null
        /\ (result.op = "init" /\ result.status = "error") =>
             (result.sid = 0 /\ result.upstream # Null)
        /\ (result.op = "init" /\ result.status = "ok") => result.upstream = Null
        /\ result.op = "init" => (\A p \in Procs : ~InBody(p)) /\ ~lockAcquired)
  /\ [][FailedInit]_vars

C19_Witness ==
  /\ kvOpen
  /\ result.op = "init"
  /\ result.status = "error"
  /\ result.upstream = S_invalid_client
  /\ ~lockAcquired
  /\ Has(oauthStates, 1)
  /\ Has(kvStates, 1)
  /\ issued = {1}

\* the names of the fields of a response body
FieldNames(body) == {e[1] : e \in body}

\* C20 (step part): the step of a successful init that stores the session adds
\* exactly one session to memory, under a stateId that no session in memory or in
\* the durable store has, with createdAt = lastUsedAt = the time of that step; the
\* step that follows writes the same session under the same stateId to the durable
\* store and returns stateId, userCode, verificationUri, verificationUriComplete and
\* the expiry (expiresAt, expiresIn) beside the success flag.
SuccessfulInit ==
  \A p \in Handlers :
    /\ (Leaves(p, "init_fetch") /\ pc'[p] = "init_save") =>
         LET s == sid'[p]
         IN /\ ~Has(oauthStates, s)
            /\ ~Has(kvStates, s)
            /\ s \notin issued
            /\ Has(oauthStates', s)
            /\ SameBut(oauthStates', oauthStates, s)
            /\ oauthStates'[s].createdAt = DateNow
            /\ oauthStates'[s].lastUsedAt = DateNow
            /\ oauthStates'[s].expiresAt > DateNow
            /\ UNCHANGED <<kvStates, tokenStore, kvTokens>>
    /\ Leaves(p, "init_save") =>
         LET s == sid[p]
         IN /\ kvOpen => /\ Has(kvStates', s)
                         /\ kvStates'[s] = oauthStates[s]
                         /\ SameBut(kvStates', kvStates, s)
            /\ UNCHANGED <<oauthStates, tokenStore, kvTokens>>
            /\ result'.op = "init"
            /\ result'.status = "ok"
            /\ result'.sid = s
            /\ FieldNames(result'.body) =
                 {"success", "stateId", "userCode", "verificationUri",
                  "verificationUriComplete", "expiresAt", "expiresIn"}
            /\ <<"stateId", <<"state_id", s>>>> \in result'.body
            /\ <<"userCode", oauthStates[s].userCode>> \in result'.body
            /\ <<"verificationUri", oauthStates[s].verificationUri>> \in result'.body
            /\ <<"verificationUriComplete", oauthStates[s].verificationUriComplete>>
                 \in result'.body
            /\ <<"expiresAt", <<"time", oauthStates[s].expiresAt>>>> \in result'.body

\* C20 (state part): a session is waiting to be persisted only while it is in memory
\* under a stateId that was issued, and no response of init, poll or cancel has a
\* field named deviceCode or codeVerifier or a value that is a session's device code
\* or code verifier.
NoSecretInResult ==
  /\ \A p \in Handlers : pc[p] = "init_save" => (sid[p] \in issued /\ Has(oauthStates, sid[p]))
  /\ \A e \in result.body :
       /\ e[1] \notin {"deviceCode", "codeVerifier"}
       /\ e[2][1] \notin {"device_code", "code_verifier"}
       /\ \A s \in DOMAIN oauthStates :
            e[2] \notin {oauthStates[s].deviceCode, oauthStates[s].codeVerifier}
       /\ \A s \in DOMAIN kvStates :
            e[2] \notin {kvStates[s].deviceCode, kvStates[s].codeVerifier}
  /\ result.op \in {"init", "poll", "cancel"} => result.body # {}

\* C20: a successful init adds exactly one new session, under a stateId no existing
\* session uses, to the in-memory map and to the durable store, with createdAt =
\* lastUsedAt = the time of creation; its response holds only stateId, userCode,
\* verificationUri, verificationUriComplete and the expiry, and no result of init,
\* poll or cancel ever contains a session's deviceCode or codeVerifier.
C20_InitAddsOneFreshSession == []NoSecretInResult /\ [][SuccessfulInit]_vars

C20_Witness ==
  /\ kvOpen
  /\ result.op = "init"
  /\ result.status = "ok"
  /\ result.sid = 2
  /\ Has(oauthStates, 1)
  /\ Has(oauthStates, 2)
  /\ Has(kvStates, 2)
  /\ kvStates[2] = oauthStates[2]
  /\ <<"userCode", <<"user_code", 2>>>> \in result.body

\* a session exists: it is in the in-memory map or in the durable store
Exists(s) == Has(oauthStates, s) \/ Has(kvStates, s)

Failing == {"rejected", "throw"}
InMemoryPool(id) == Has(tokenStore, id)
InStore(id) == Has(kvTokens, id)

\* while the durable store is open, what the pool holds in memory it holds in the
\* store, with the same fields
MemoryWithinStore ==
  kvOpen => \A id \in DOMAIN tokenStore : InStore(id) /\ kvTokens[id] = tokenStore[id]

\* C22: when refresh-single or refresh-all returns, every record whose forced refresh
\* failed (the grant was rejected or the call threw) is in neither the in-memory pool
\* nor the durable store, and every record whose forced refresh succeeded is in both,
\* carrying the access token the refresh returned.
C22_ForcedRefreshFailureDeletes ==
  result.op \in {"refresh-single", "refresh-all"} =>
    \A id \in result.calls :
      /\ result.answers[id].kind \in Failing =>
           /\ ~InMemoryPool(id)
           /\ ~InStore(id)
      /\ result.answers[id].kind \notin Failing =>
           /\ InMemoryPool(id)
           /\ tokenStore[id].access_token = result.answers[id].access_token
           /\ kvOpen => (InStore(id) /\ kvTokens[id] = tokenStore[id])

\* refresh-all over two records, one refresh rejected and one successful, with the
\* durable store open
C22_Witness ==
  /\ kvOpen
  /\ result.op = "refresh-all"
  /\ \E id1, id2 \in result.calls :
       /\ result.answers[id1].kind = "throw"
       /\ result.answers[id2].kind = "token"
       /\ ~InMemoryPool(id1)
       /\ InStore(id2)
  /\ result.count = 1

\* the records a handler that loads the pool works on
KnownPool == IF kvOpen THEN kvTokens ELSE tokenStore

\* C23 (step part): a step of getValidToken or handleTokenStatus removes no record
\* from memory or from the durable store; a record whose refresh failed in it keeps
\* its fields in both, is not the record getValidToken returns, and is listed by
\* handleTokenStatus as expired with its old expiry.
NonForcedKeeps ==
  result'.op \in {"select", "status"} =>
    /\ DOMAIN tokenStore \subseteq DOMAIN tokenStore'
    /\ DOMAIN kvTokens' = DOMAIN kvTokens
    /\ \A id \in result'.calls :
         result'.answers[id].kind \in Failing =>
           /\ Has(tokenStore', id)
           /\ tokenStore'[id] = KnownPool[id]
           /\ Has(tokenStore, id) => tokenStore'[id] = tokenStore[id]
           /\ kvOpen => (Has(kvTokens', id) /\ kvTokens'[id] = kvTokens[id])
           /\ isExpired(tokenStore'[id], DateNow)
           /\ result'.op = "select" => result'.id # id
           /\ result'.op = "status" =>
                /\ result'.listed[id].isExpired
                /\ result'.listed[id].expiresAt = KnownPool[id].expires_at
                /\ result'.listed[id].uploadedAt = KnownPool[id].uploaded_at

\* C23: selectValid() and list() never delete a record: a record whose refresh fails
\* during either stays in the in-memory pool and the durable store with its fields
\* unchanged, and is only left out of the candidates (selectValid) or reported as
\* still expired (list).
C23_NonForcedFailureKeepsRecord == []MemoryWithinStore /\ [][NonForcedKeeps]_vars

\* getValidToken has returned one record while the refresh of another failed, and
\* that other one is still in memory and in the durable store
C23_Witness ==
  /\ kvOpen
  /\ result.op = "select"
  /\ result.status = "ok"
  /\ \E id \in result.calls :
       /\ result.answers[id].kind = "rejected"
       /\ id # result.id
       /\ InMemoryPool(id)
       /\ InStore(id)
       /\ isExpired(tokenStore[id], DateNow)

\* the handlers that refresh: whether expired or not (forced), or only when expired
ForcedOps == {"refresh-single", "refresh-all"}
NonForcedOps == {"select", "status"}

\* C24 (step part): in a step of a refreshing handler, every record whose refresh the
\* token endpoint answered with a token is afterwards stored under the same id with
\* the new access token, the new refresh token (the old one when the answer has
\* none), the new expiry and its old uploadedAt, the same in memory and in the
\* durable store; no record is added, and none is removed unless its forced refresh
\* failed (a request without a tokenId touches nothing).  A record that is not expired is not refreshed by a non-forced handler:
\* no upstream call is made for it and it is left, and returned, as it was.
RefreshReplaces ==
  result'.op \in ForcedOps \cup NonForcedOps =>
    /\ \A id \in result'.calls :
         result'.answers[id].kind = "token" =>
           LET o == result'.answers[id]
               old == KnownPool[id]
               new == tokenStore'[id]
           IN /\ Has(tokenStore', id)
              /\ new.access_token = o.access_token
              /\ new.refresh_token =
                   (IF o.refresh_token # <<>> THEN o.refresh_token ELSE old.refresh_token)
              /\ new.expires_at = DateNow + (IF o.expires_in # 0 THEN o.expires_in ELSE 60)
              /\ new.uploaded_at = old.uploaded_at
              /\ kvOpen => (Has(kvTokens', id) /\ kvTokens'[id] = new)
              /\ result'.op \in {"refresh-single", "select"} /\ result'.id = id =>
                   result'.token = new
    /\ result'.status # "missing" => DOMAIN tokenStore' =
         DOMAIN KnownPool \ {id \in result'.calls : /\ result'.op \in ForcedOps
                                                    /\ result'.answers[id].kind \in Failing}
    /\ (kvOpen /\ result'.status # "missing") => DOMAIN kvTokens' = DOMAIN tokenStore'
    /\ result'.op \in NonForcedOps =>
         \A id \in DOMAIN KnownPool :
           ~isExpired(KnownPool[id], DateNow) =>
             /\ id \notin result'.calls
             /\ tokenStore'[id] = KnownPool[id]
             /\ kvOpen => kvTokens'[id] = kvTokens[id]
             /\ (result'.op = "select" /\ result'.id = id) => result'.token = KnownPool[id]
    /\ (result'.op = "refresh-all" /\ result'.status = "ok") => result'.calls = DOMAIN KnownPool

\* C24: a refresh (forced or not) that the token endpoint answers with a token leaves
\* the record under the same id with the new access token, the new refresh token (the
\* old one if the answer has none) and the new expiry, uploadedAt unchanged, written
\* to memory and durable store, the number of records unchanged; a non-forced refresh
\* of a record that is not expired returns it unchanged without an upstream call.
C24_RefreshReplacesInPlace == [][RefreshReplaces]_vars

\* a record uploaded earlier has been refreshed by an answer without a refresh token:
\* it keeps its refresh token and uploadedAt, under the id it had
C24_Witness ==
  /\ kvOpen
  /\ result.op = "refresh-single"
  /\ result.status = "ok"
  /\ result.answers[result.id].refresh_token = <<>>
  /\ tokenStore[result.id].refresh_token = RT_B
  /\ tokenStore[result.id].access_token = "r1"
  /\ tokenStore[result.id].uploaded_at < DateNow
  /\ kvTokens[result.id] = tokenStore[result.id]
  /\ Cardinality(DOMAIN tokenStore) = 2

\* C25 (step part): what a step of getValidToken returns.  The good records are those
\* of the pool that are not expired, or whose refresh the token endpoint answers with
\* a token; an upstream call is made for exactly the expired ones.
SelectReturnsGood ==
  result'.op = "select" =>
    LET expired == {id \in DOMAIN KnownPool : isExpired(KnownPool[id], DateNow)}
        refreshed == {id \in expired : result'.answers[id].kind = "token"}
        good == (DOMAIN KnownPool \ expired) \cup refreshed
    IN /\ result'.calls = expired
       /\ (result'.status = "ok") <=> (good # {})
       /\ (result'.status = "null") <=>
            (DOMAIN KnownPool = {} \/ \A id \in DOMAIN KnownPool :
                                        id \in expired /\ result'.answers[id].kind \in Failing)
       /\ result'.status \in {"ok", "null"}
       /\ result'.status = "ok" =>
            /\ result'.id \in good
            /\ result'.token = tokenStore'[result'.id]
            /\ ~isExpired(result'.token, DateNow)
            /\ result'.id \notin expired => result'.token = KnownPool[result'.id]
            /\ result'.id \in refreshed =>
                 result'.token.access_token = result'.answers[result'.id].access_token

\* C25: selectValid() returns a record exactly when some record of the pool is
\* unexpired or is refreshed with success during the call, and the record it returns
\* is one of those, never one whose refresh failed; it returns null only when the
\* pool is empty or every record fails.
C25_SelectReturnsOnlyGood == [][SelectReturnsGood]_vars

\* one credential's refresh threw, the other's succeeded and is the one returned
C25_Witness ==
  /\ result.op = "select"
  /\ result.status = "ok"
  /\ result.id \in result.calls
  /\ result.answers[result.id].kind = "token"
  /\ result.token.access_token = "r1"
  /\ \E id \in result.calls : result.answers[id].kind = "throw" /\ InMemoryPool(id)

\* every record of the pool is valid: none is expired
AllValid == DOMAIN KnownPool # {} /\ \A id \in DOMAIN KnownPool : ~isExpired(KnownPool[id], DateNow)

\* C26: over a pool of N valid and no invalid credentials, every one of the N is
\* returned by a call of selectValid() for some outcome of its random choices (the
\* shuffle, then the pick).
C26_EveryCredentialCanBeSelected ==
  AllValid =>
    \A id \in DOMAIN KnownPool :
      ENABLED (/\ SelectRejectedStep
               /\ result'.status = "ok"
               /\ result'.id = id
               /\ result'.token = KnownPool[id])

\* a call over three valid credentials has returned the one uploaded last
C26_Witness ==
  /\ AllValid
  /\ Cardinality(DOMAIN tokenStore) = 3
  /\ result.op = "select"
  /\ result.status = "ok"
  /\ result.id = getTokenId(RT_D)
  /\ result.calls = {}

\* m2 is m1 with the entry of k set to v, and nothing else changed
SetIn(m1, m2, k, v) ==
  /\ DOMAIN m2 = DOMAIN m1 \cup {k}
  /\ m2[k] = v
  /\ \A x \in DOMAIN m1 \ {k} : m2[x] = m1[x]

\* C27 (step part): an accepted upload stores, under the first 8 characters of its
\* refresh token, a record with the body's access token, refresh token and expiry
\* (an hour from now when the body has none) and uploadedAt = now, in memory and in
\* the durable store, in place of the record that was under that id, and touches no
\* other record.
UploadOverwrites ==
  (result'.op = "upload" /\ result'.status = "ok") =>
    LET id == result'.id
        new == result'.token
    IN /\ id = FirstEight(new.refresh_token)
       /\ \E b \in UploadBodies :
            /\ new.access_token = b.access_token
            /\ new.refresh_token = b.refresh_token
            /\ new.expires_at = DateNow + (IF b.expires_at # 0 THEN b.expires_at ELSE 60)
       /\ new.uploaded_at = DateNow
       /\ SetIn(tokenStore, tokenStore', id, new)
       /\ kvOpen => SetIn(kvTokens, kvTokens', id, new)
       /\ result'.before = (IF Has(tokenStore, id) THEN tokenStore[id] ELSE <<>>)
       /\ Has(tokenStore, id) =>
            Cardinality(DOMAIN tokenStore') = Cardinality(DOMAIN tokenStore)

\* C27 (the ids): refresh tokens that share their first 8 characters have the same id
SamePrefixSameId ==
  \A b1, b2 \in UploadBodies :
    FirstEight(b1.refresh_token) = FirstEight(b2.refresh_token) =>
      getTokenId(b1.refresh_token) = getTokenId(b2.refresh_token)

\* C27: two uploads whose refresh tokens share their first 8 characters map to the
\* same id; after the second the pool holds, in memory and in the durable store,
\* exactly one record under that id, with the second upload's access token, refresh
\* token, expiry and uploadedAt; an upload never adds a second record for an id.
C27_UploadOverwritesSameId == []SamePrefixSameId /\ [][UploadOverwrites]_vars

\* the upload of refreshtokenZZ has replaced the record of refreshtokenABCDEFGH
C27_Witness ==
  /\ kvOpen
  /\ result.op = "upload"
  /\ result.before # <<>>
  /\ result.before.refresh_token = RT_A
  /\ result.before.uploaded_at < DateNow
  /\ result.token.refresh_token = RT_B
  /\ DOMAIN tokenStore = {FirstEight(RT_A)}
  /\ tokenStore[FirstEight(RT_A)] = result.token
  /\ tokenStore[FirstEight(RT_A)].access_token = "a2"
  /\ kvTokens = tokenStore

\* the upload {access_token: "a1", refresh_token: "refreshtokenABCDEFGH"} has been
\* accepted in the step just taken
UploadedA1 ==
  /\ result.op = "upload"
  /\ result.status = "ok"
  /\ result.token.access_token = "a1"
  /\ result.token.refresh_token = RT_A

S_refreshto == <<"r", "e", "f", "r", "e", "s", "h", "t", "o">>
S_refresht == <<"r", "e", "f", "r", "e", "s", "h", "t">>

\* C28 (as stated): the upload of access token "a1" with refresh token
\* "refreshtokenABCDEFGH" creates a record whose id is "refreshto".
C28_IdIsRefreshto ==
  UploadedA1 =>
    /\ result.id = S_refreshto
    /\ Has(tokenStore, S_refreshto)

\* C28 (amended): the upload of access token "a1" with refresh token
\* "refreshtokenABCDEFGH" creates a record whose id is "refresht", the first 8
\* characters of the refresh token.
C28_IdIsRefresht ==
  UploadedA1 =>
    /\ result.id = S_refresht
    /\ Len(result.id) = 8
    /\ Has(tokenStore, S_refresht)
    /\ ~Has(tokenStore, S_refreshto)
    /\ tokenStore[S_refresht].access_token = "a1"
    /\ tokenStore[S_refresht].refresh_token = RT_A
    /\ kvOpen => (Has(kvTokens, S_refresht) /\ kvTokens[S_refresht] = tokenStore[S_refresht])

C28_Witness ==
  /\ UploadedA1
  /\ result.before = <<>>
  /\ DOMAIN tokenStore = {S_refresht}
  /\ tokenStore[S_refresht].access_token = "a1"

\* the token records there are: those of the in-memory pool and of the durable store
\* (a record held in both is one record)
AllRecords == DOMAIN tokenStore \cup (IF kvOpen THEN DOMAIN kvTokens ELSE {})

\* C29 (step part): a step of handleDeleteAllTokens leaves no token record in memory
\* or in the durable store and reports as its count the number of records there were.
DeleteAllCounts ==
  result'.op = "delete-all" =>
    /\ tokenStore' = <<>>
    /\ kvOpen => kvTokens' = <<>>
    /\ result'.count = Cardinality(AllRecords)

\* C29: after deleteAll() the in-memory pool and the durable store hold no token
\* record, and the count it reports is the number of token records that were removed,
\* in every reachable state, including those in which the in-memory pool and the
\* durable store held different sets of records.
C29_DeleteAllReportsRemoved == [][DeleteAllCounts]_vars

\* the in-memory maps
Memory == <<oauthStates, tokenStore>>

\* C30 (step part), with the durable store never opened:
\*  - an upload is accepted and its record is in the in-memory pool;
\*  - getValidToken and handleTokenStatus leave the pool as it was (their load from
\*    the store touches nothing), getValidToken returns a record of the pool
\*    whenever the pool has an unexpired one, and handleTokenStatus lists every
\*    record of the pool;
\*  - an init that the authorization server answers succeeds, and its session is in
\*    the in-memory map when it returns; an init fails only on the server's answer;
\*  - a poll of a session that is in memory finds it there; a poll that looks in the
\*    store leaves the in-memory maps untouched and reports the session unknown.
MemoryOnlyWorks ==
  /\ result'.op = "upload" =>
       /\ result'.status = "ok"
       /\ SetIn(tokenStore, tokenStore', result'.id, result'.token)
  /\ result'.op \in {"select", "status"} =>
       /\ DOMAIN tokenStore' = DOMAIN tokenStore
       /\ \A id \in DOMAIN tokenStore :
            ~isExpired(tokenStore[id], DateNow) => tokenStore'[id] = tokenStore[id]
  /\ result'.op = "select" =>
       /\ (\E id \in DOMAIN tokenStore : ~isExpired(tokenStore[id], DateNow)) =>
            /\ result'.status = "ok"
            /\ Has(tokenStore, result'.id)
            /\ result'.token = tokenStore'[result'.id]
       /\ tokenStore = <<>> => result'.status = "null"
  /\ result'.op = "status" =>
       /\ DOMAIN result'.listed = DOMAIN tokenStore
       /\ result'.count = Cardinality(DOMAIN tokenStore)
  /\ \A p \in Handlers :
       /\ Leaves(p, "init_save") =>
            /\ result'.op = "init"
            /\ result'.status = "ok"
            /\ Has(oauthStates', result'.sid)
       /\ (Leaves(p, "poll_json") /\ Has(oauthStates, sid'[p])) =>
            /\ pc'[p] # "poll_kvload"
            /\ result'.status # UnknownSession
       /\ Leaves(p, "poll_kvload") =>
            /\ ~Has(oauthStates, sid[p])
            /\ UNCHANGED Memory
            /\ result'.op = "poll"
            /\ result'.status = UnknownSession
  /\ (result'.op = "init" /\ result'.status = "error") => result'.upstream # Null
  /\ UNCHANGED <<kvStates, kvTokens, kvOpen>>

\* C30: with the durable store never opened, token and session operations work on
\* memory alone and do not fail: an uploaded token is returned by a later
\* selectValid/list, a session created by init is found by a later poll, and loads
\* from the store leave the in-memory maps untouched.
C30_MemoryOnlyOperation ==
  /\ [](~kvOpen /\ kvStates = <<>> /\ kvTokens = <<>>)
  /\ [][MemoryOnlyWorks]_vars

\* without a store: a session was created by init and found by the poll that got
\* its token; that token and an uploaded one are in the pool, and getValidToken has
\* returned the uploaded one
C30_Witness ==
  /\ ~kvOpen
  /\ result.op = "select"
  /\ result.status = "ok"
  /\ result.token.access_token = "a1"
  /\ result.token.refresh_token = RT_A
  /\ Has(tokenStore, FirstEight(RT_C))
  /\ tokenStore[FirstEight(RT_C)].access_token = "access"
  /\ terminal[1] = <<"SUCCESS">>

\* the load of the step just taken read the durable store, and the read failed
LoadFailed ==
  /\ kvOpen
  /\ kvListFault # NoFault
  /\ result'.op \in {"select", "status", "refresh-all", "refresh-single", "delete"}
  /\ result'.status # "missing"

\* the records the operation of the step just taken removes itself: the one a delete
\* names, and those whose forced refresh failed
RemovedByOperation ==
  IF result'.op \in {"delete", "refresh-single"} THEN {result'.id}
  ELSE IF result'.op = "refresh-all"
  THEN {id \in result'.calls : RefreshFails(result'.answers[id])}
  ELSE {}

\* C31: when reading the durable store fails while an operation loads the token
\* snapshot, the operation still answers and no record is lost from memory because
\* of it: every record that was in memory is still there after the operation,
\* except those the operation itself removes.
C31_FailedLoadKeepsMemory ==
  [][LoadFailed =>
       \A id \in DOMAIN tokenStore \ RemovedByOperation : Has(tokenStore', id)]_vars

\* the items in the order of their upstream calls so far, followed by the items still
\* queued, each named by its resolver (resolvers are numbered in the order of the
\* pushes)
ForwardingOrder ==
  [i \in 1..Len(dispatched) |-> dispatched[i].resolve]
    \o [i \in 1..Len(requestQueue) |-> requestQueue[i].resolve]

\* upstream calls have been started, and are still to be started, in the order of the
\* pushes
InPushOrder ==
  \A i, j \in 1..Len(ForwardingOrder) : i < j => ForwardingOrder[i] < ForwardingOrder[j]

\* a step changes the queue only by appending one item at its tail or by taking one
\* from its head; the step that appends starts no upstream call
AppendOrShift ==
  requestQueue' # requestQueue =>
    \/ /\ \E b \in Bodies : requestQueue' = Append(requestQueue, [body |-> b, resolve |-> nextReq])
       /\ UNCHANGED <<dispatched, inflight>>
    \/ /\ requestQueue # <<>>
       /\ requestQueue' = Tail(requestQueue)
       /\ dispatched' = Append(dispatched, [resolve |-> Head(requestQueue).resolve,
                                            keyIndex |-> currentKeyIndex])

\* C32: items are forwarded upstream in the order they were enqueued: the upstream
\* call of an item appended earlier is started before that of an item appended later;
\* enqueue only appends and never reorders or removes queued items.
C32_ForwardedInEnqueueOrder == []InPushOrder /\ [][AppendOrShift]_vars

\* two items were queued together and both have been forwarded
C32_Witness ==
  /\ Len(dispatched) >= 2
  /\ \E i \in 1..Len(dispatched) : ahead[dispatched[i].resolve] >= 1

\* C33: a session's pollInterval never decreases during the session's lifetime: after
\* every step, slow_down answers on a session whose server-supplied interval is above
\* 10 seconds included, the pollInterval of a session that stays in memory is greater
\* than or equal to what it was before the step.
C33_PollIntervalNeverDecreases ==
  [][\A s \in DOMAIN oauthStates \cap DOMAIN oauthStates' :
       oauthStates'[s].pollInterval >= oauthStates[s].pollInterval]_vars

\* the two timeouts of a session besides its expiry, at time t: idle for more than 30
\* minutes, or older than 60 minutes
IdleOrOld(state, t) ==
  \/ t - state.lastUsedAt > IDLE_LIMIT
  \/ t - state.createdAt > AGE_LIMIT

\* a poll that finds its session idle for more than 30 minutes or older than 60
\* minutes evicts it from memory at once, and a poll never goes on to its upstream call
\* for a session that is older than 60 minutes
PollEnforcesIdleAndAge ==
  \A p \in Handlers :
    /\ (/\ Leaves(p, "poll_json")
        /\ sid'[p] # 0
        /\ Has(oauthStates, sid'[p])
        /\ IdleOrOld(oauthStates[sid'[p]], DateNow)) => ~Has(oauthStates', sid'[p])
    /\ (/\ Leaves(p, "poll_usage_save")
        /\ DateNow - oauthStates[sid[p]].createdAt > AGE_LIMIT) => pc'[p] # "poll_fetch"

\* C34: poll enforces all three timeout conditions: a poll on a session that at the
\* moment of the call has been idle for more than 30 minutes or is older than 60
\* minutes evicts the session and does not return pending or success nor issue an
\* upstream call, just as for now > expiresAt + 60 s.
C34_PollEnforcesAllTimeouts == [][PollEnforcesIdleAndAge]_vars

\* C35: the SessionLock is held across at most one upstream HTTP call per acquisition:
\* between an acquireLock and the matching releaseLock every lock-holding operation
\* (init, poll, cancel, cleanup, and the poll-until-token loop) has issued at most one
\* call to the authorization server.
C35_OneUpstreamCallPerAcquisition ==
  \A p \in Procs : pc[p] \notin {"idle", "acquire"} => tmp[p].calls <= 1

\* C36: every token record in the pool is stored under the id derived from its own
\* refresh token: in every reachable state each record's key, in memory and in the
\* durable store, equals the first 8 characters of the record's current
\* refresh_token.
C36_KeyIsPrefixOfRefreshToken ==
  /\ \A id \in DOMAIN tokenStore : id = FirstEight(tokenStore[id].refresh_token)
  /\ \A id \in DOMAIN kvTokens : id = FirstEight(kvTokens[id].refresh_token)

\* the ids that have a record, in memory or in the durable store
Recorded == DOMAIN tokenStore \cup DOMAIN kvTokens

\* C37: a deleted token stays deleted: a record that is absent from the in-memory pool
\* and the durable store is created again only by an upload (or an OAuth success),
\* for every interleaving with operations in flight: a refresh of the record that
\* completes after the delete does not write the record back.
C37_DeletedStaysDeleted ==
  [][\A id \in Recorded' \ Recorded : result'.op = "upload"]_vars

\* the handlers between their acquireLock and their releaseLock
Holders == {p \in Procs : pc[p] \notin {"idle", "acquire"}}

\* the lock is taken exactly while one handler is between acquireLock and releaseLock
LockedWhileHeld ==
  /\ Cardinality(Holders) <= 1
  /\ lockAcquired <=> Holders # {}

\* a handler that leaves its body, by whatever exit, leaves the lock free, and the
\* lock is freed only by the step in which its holder leaves
ReleasedByHolderOnExit ==
  /\ \A p \in Holders : pc'[p] = "idle" => ~lockAcquired'
  /\ (lockAcquired /\ ~lockAcquired') => \E p \in Holders : pc'[p] = "idle"

\* C38: every handler that acquires the SessionLock releases it on every exit path
\* (normal return, early validation return, thrown exception), and only the current
\* holder ever releases it; so whenever no init/poll/cancel/cleanup handler is
\* executing, the lock is free.
C38_LockReleasedOnEveryExit == []LockedWhileHeld /\ [][ReleasedByHolderOnExit]_vars

\* a poll has returned early for want of a stateId, and the lock is free
C38_Witness ==
  /\ result.op = "poll"
  /\ result.status = "missing"
  /\ Holders = {}
  /\ ~lockAcquired

\* C39: every handler that starts waiting in acquireLock eventually acquires the
\* SessionLock, provided every holder's upstream and storage calls settle: no init,
\* poll, cancel or cleanup invocation waits for the lock forever while other handlers
\* keep acquiring and releasing it.
C39_EveryWaiterAcquires ==
  \A p \in Procs : (pc[p] = "acquire") ~> (pc[p] # "acquire")

\* C40: whenever no OAuth handler holds the SessionLock and the durable store is
\* working, every session in the in-memory map has a durable copy with identical
\* field values (pollInterval and lastUsedAt included).
C40_MemoryMirroredInStore ==
  (kvOpen /\ ~lockAcquired) =>
    \A s \in DOMAIN oauthStates : Has(kvStates, s) /\ kvStates[s] = oauthStates[s]

====
